---- MODULE Spec2Model ----
(***************************************************************************)
(* A model of maxx's PathsCollection (src/src/maxx/collection.py) and of   *)
(* the Alias indirection (src/src/maxx/objects.py).                        *)
(*                                                                         *)
(* Strings are modelled structurally: a string is a record                 *)
(*   [pre, segs]  standing for  pre + ".".join(segs)                       *)
(* where pre is "", "+", "@" or "/" and no segment contains a dot, so      *)
(* that strip-the-first-character, split(".") and join(".") are computed   *)
(* and not assumed.  A path component additionally carries its suffix,     *)
(* and a filesystem path is the sequence of its components.                *)
(***************************************************************************)
EXTENDS Integers, Sequences, FiniteSets, TLC

VARIABLES
    path,       \* PathsCollection._path: the roots, front first
    mapping,    \* PathsCollection._mapping: identifier -> deque of paths
    okeys,      \* key order of the dict PathsCollection._objects
    objects,    \* PathsCollection._objects: path -> Alias
    members,    \* PathsCollection._members: root -> list of (name, path)
    folders,    \* PathsCollection._folders: directory -> Alias
    heap,       \* the objects built so far; an object's identity is its index
    lines,      \* keys of PathsCollection.lines_collection
    err,        \* the exception the last call raised, "none" if it returned
    result,     \* the value the last call returned (an object identity or None)
    hist,       \* the calls made so far
    aTarget,    \* Alias._target of the alias shared by the threads
    aLock,      \* holder of Alias._lock, 0 when free
    built,      \* objects whose construction has completed
    making,     \* object a constructor call is still building, per thread
    ctorCalls,  \* number of times Alias._constructor was entered
    ctorOutcome,\* what the alias's constructor does: "object", "none" or "raise"
    tpc,        \* per thread: position inside Alias._actual
    tgot,       \* per thread: the target the access returned
    input,      \* what the files hold, or the argument of the function applied
    output      \* what the function applied to input returned or raised

collVars == <<path, mapping, okeys, objects, members, folders, heap, lines, err, result, hist>>
thrVars == <<aTarget, aLock, built, making, ctorCalls, ctorOutcome, tpc, tgot>>
funVars == <<input, output>>
vars == <<path, mapping, okeys, objects, members, folders, heap, lines, err, result, hist,
          aTarget, aLock, built, making, ctorCalls, ctorOutcome, tpc, tgot, input, output>>

\* Number of addpath / rm_path / lookup calls explored in one run.
MaxOps == 4
\* Number of threads that access the same alias.
MaxThreads == 3

None == 0

---------------------------------------------------------------------------
(* Strings and path components *)

MFILE_SUFFIX == ".m"
CLASSFOLDER_PREFIX == "@"
NAMESPACE_PREFIX == "+"
FOLDER_PREFIXES == {CLASSFOLDER_PREFIX, NAMESPACE_PREFIX}

Str(pre, segs) == [pre |-> pre, segs |-> segs]
Comp(pre, segs, suf) == [pre |-> pre, segs |-> segs, suf |-> suf]

PRIVATE_FOLDER == Str("", <<"private">>)
CONTENTS_FILE == Comp("", <<"Contents">>, MFILE_SUFFIX)

\* Path.stem: the name without its suffix.
Stem(c) == Str(c.pre, c.segs)
\* name[1:] of a name that starts with a folder prefix.
Strip1(c) == Str("", c.segs)
\* a + "." + b
Dot(a, b) == Str(a.pre, a.segs \o b.segs)

SeqRange(s) == {s[i] : i \in 1..Len(s)}
Front(s) == SubSeq(s, 1, Len(s) - 1)
Last(s) == s[Len(s)]
Parent(p) == Front(p)
RECURSIVE RemoveFirst(_, _)
\* deque.remove(x): drops the first occurrence of x.
RemoveFirst(s, x) ==
    IF s = <<>> THEN <<>>
    ELSE IF Head(s) = x THEN Tail(s)
    ELSE <<Head(s)>> \o RemoveFirst(Tail(s), x)

---------------------------------------------------------------------------
(* The file system the collection is run on.  Tree maps every directory   *)
(* to its listing (Path.iterdir, here in name order); FileKind is what    *)
(* FILE_QUERY classifies a file's content as, "bad" for a file whose      *)
(* parse raises.                                                          *)

File(n) == Comp("", <<n>>, MFILE_SUFFIX)
Dir(n) == Comp("", <<n>>, "")
NsDir(n) == Comp(NAMESPACE_PREFIX, <<n>>, "")
ClsDir(n) == Comp(CLASSFOLDER_PREFIX, <<n>>, "")

RootA == <<Dir("A")>>
RootB == <<Dir("B")>>
RootD == <<Dir("D")>>
Roots == {RootA, RootB, RootD}
\* a root of class files; which classes they extend is in input
RootM == <<Dir("M")>>
\* a root that holds the class folder @K: K.m, get.value.m and resize.m
RootW == <<Dir("W")>>
ClsW == RootW \o <<ClsDir("K")>>
GetValueFile == ClsW \o <<Comp("", <<"get", "value">>, ".m")>>
ResizeFile == ClsW \o <<File("resize")>>

PkgA == RootA \o <<NsDir("pkg")>>
SubA == PkgA \o <<NsDir("sub")>>
ClsA == RootA \o <<ClsDir("C")>>

Tree ==
    (RootA :> <<NsDir("pkg"), ClsDir("C"), File("util")>>) @@
    (PkgA :> <<NsDir("sub"), File("bar")>>) @@
    (SubA :> <<File("x")>>) @@
    (ClsA :> <<File("C"), File("f")>>) @@
    (RootB :> <<CONTENTS_FILE, Dir("private"), Dir("sub"), File("util")>>) @@
    (RootB \o <<Dir("sub")>> :> <<File("bad"), File("deep")>>) @@
    (RootB \o <<Dir("private")>> :> <<File("p")>>) @@
    (RootD :> <<File("ok"), File("util")>>) @@
    (RootM :> <<File("A"), File("B"), File("C"), File("H")>>) @@
    (RootW :> <<ClsDir("K")>>) @@
    (ClsW :> <<File("K"), Last(GetValueFile), Last(ResizeFile)>>)

BadFile == RootB \o <<Dir("sub"), File("bad")>>

FileKind(p) ==
    IF p \in {ClsA \o <<File("C")>>, ClsW \o <<File("K")>>} \/ Parent(p) = RootM
    THEN "class"
    ELSE IF p = BadFile THEN "bad"
    ELSE IF Last(p) = CONTENTS_FILE THEN "script"
    ELSE "function"

\* member.is_dir() in a directory tree
IsDirIn(tree, p) == p \in DOMAIN tree
IsDir(p) == IsDirIn(Tree, p)
Exists(p) ==
    \/ p \in DOMAIN Tree
    \/ /\ Len(p) > 1
       /\ Parent(p) \in DOMAIN Tree
       /\ Last(p) \in SeqRange(Tree[Parent(p)])
IsFile(p) == Exists(p) /\ ~IsDir(p)

---------------------------------------------------------------------------
(* _PathGlobber *)

\* what _glob does with the paths it meets: it appends a path to
\* self._paths, or calls itself on a directory
Appended(p) == [ev |-> "append", path |-> p]
Globbed(p) == [ev |-> "glob", path |-> p]

\* the first test of _glob without "member.stem != PRIVATE_FOLDER"
RecursesPrivate(c, recursive) == recursive /\ c.pre \notin FOLDER_PREFIXES
\* the first test of _glob, for a member that is a directory
Recurses(c, recursive) ==
    recursive /\ c.pre \notin FOLDER_PREFIXES /\ Stem(c) # PRIVATE_FOLDER

RECURSIVE GlobWalk(_, _, _, _)
\* _PathGlobber._glob(dir, recursive) from the i-th member of dir on, in a
\* directory tree: the appends and the calls in the order they are made.
\* A member that is not a directory is a file.
GlobWalk(tree, dir, i, recursive) ==
    IF i > Len(tree[dir]) THEN <<>>
    ELSE
        LET c == tree[dir][i]
            member == dir \o <<c>>
            here ==
                IF IsDirIn(tree, member) /\ Recurses(c, recursive)
                THEN <<Globbed(member)>> \o GlobWalk(tree, member, 1, TRUE)
                ELSE IF IsDirIn(tree, member) /\ c.pre \in FOLDER_PREFIXES
                THEN <<Appended(member), Globbed(member)>> \o GlobWalk(tree, member, 1, FALSE)
                ELSE IF ~IsDirIn(tree, member) /\ c.suf = MFILE_SUFFIX /\ c # CONTENTS_FILE
                THEN <<Appended(member)>>
                ELSE <<>>
        IN here \o GlobWalk(tree, dir, i + 1, recursive)

IsAppend(e) == e.ev = "append"
\* self._paths after the walk
Paths(walk) == [i \in 1..Len(SelectSeq(walk, IsAppend)) |-> SelectSeq(walk, IsAppend)[i].path]

GlobFrom(dir, i, recursive) == Paths(GlobWalk(Tree, dir, i, recursive))

Glob(root, recursive) == GlobFrom(root, 1, recursive)

---------------------------------------------------------------------------
(* Objects.  An object is a record on the heap; parent and the values of  *)
(* members are object identities, None (0) for no object.                 *)

NewObject(kind, name, filepath, doc) ==
    [kind |-> kind, name |-> name, parent |-> None, members |-> <<>>,
     filepath |-> filepath, doc |-> doc, bases |-> <<>>,
     arguments |-> <<>>, is_getter |-> FALSE, is_setter |-> FALSE,
     getter |-> None, setter |-> None]

RECURSIVE CanonicalPath(_, _)
\* Object.canonical_path
CanonicalPath(h, o) ==
    IF h[o].parent = None THEN h[o].name
    ELSE Dot(CanonicalPath(h, h[o].parent), h[o].name)

\* Object.path, overridden by Namespace.path
ObjPath(h, o) ==
    IF h[o].kind = "namespace"
    THEN Str(NAMESPACE_PREFIX, CanonicalPath(h, o).segs)
    ELSE CanonicalPath(h, o)

\* An Alias built from a callable: no target yet.  robj is the _object
\* cache of the _PathResolver that is its constructor.
\* target_path is annotated in __init__ and not assigned on this branch.
Undefined == Str("undefined", <<>>)
NewAlias(name) == [name |-> name, target |-> None, robj |-> None, target_path |-> Undefined]
\* An Alias built from the object o: the target and its path are set.
AliasTo(h, name, o) ==
    [name |-> name, target |-> o, robj |-> None, target_path |-> ObjPath(h, o)]

Raise(st, e) == [st EXCEPT !.err = e]
Return(st, v) == [st EXCEPT !.ret = v]

GetAlias(st, tab, p) == IF tab = "objects" THEN st.objects[p] ELSE st.folders[p]
PutTarget(st, tab, p, v) ==
    IF tab = "objects" THEN [st EXCEPT !.objects[p].target = v]
    ELSE [st EXCEPT !.folders[p].target = v]
PutRobj(st, tab, p, v) ==
    IF tab = "objects" THEN [st EXCEPT !.objects[p].robj = v]
    ELSE [st EXCEPT !.folders[p].robj = v]

\* object.members[name] = member
SetMember(st, o, name, m) ==
    [st EXCEPT !.heap[o].members =
        [k \in (DOMAIN @) \cup {name} |-> IF k = name THEN m ELSE @[k]]]
SetParent(st, o, par) == [st EXCEPT !.heap[o].parent = par]
SetDoc(st, o, d) == [st EXCEPT !.heap[o].doc = d]

---------------------------------------------------------------------------
(* _PathResolver *)

is_folder(p) == IsDir(p) /\ Last(p).pre \notin FOLDER_PREFIXES
is_class_folder(p) == IsDir(p) /\ Last(p).pre = CLASSFOLDER_PREFIX
is_namespace(p) == IsDir(p) /\ Last(p).pre = NAMESPACE_PREFIX
is_in_namespace(p) ==
    IsDir(p) /\ Len(p) > 1 /\ Last(Parent(p)).pre = NAMESPACE_PREFIX

RECURSIVE NameParts(_, _)
\* the while loop of _PathResolver.name, already reversed
NameParts(p, item) ==
    IF item < 1 THEN <<>>
    ELSE IF p[item].pre # NAMESPACE_PREFIX THEN <<>>
    ELSE NameParts(p, item - 1) \o p[item].segs

\* _PathResolver.name
ResolverName(p) ==
    LET namespace == IF is_in_namespace(p) THEN NameParts(p, Len(p) - 1) ELSE <<>>
        name == IF is_class_folder(p) \/ is_namespace(p)
                THEN Str("", namespace \o Strip1(Last(p)).segs)
                ELSE Str(Stem(Last(p)).pre, namespace \o Stem(Last(p)).segs)
    IN IF is_namespace(p) THEN Str(NAMESPACE_PREFIX, name.segs) ELSE name

README(p) == p \o <<Comp("", <<"README">>, ".md")>>
Readme(p) == p \o <<Comp("", <<"readme">>, ".md")>>

\* The docstring a parsed file carries: its header comment, if it has one.
FileDoc(p) == IF Last(p) = CONTENTS_FILE THEN p ELSE <<>>

\* _PathResolver._collect_readme_md
CollectReadme(p) ==
    IF Exists(README(p)) THEN README(p)
    ELSE IF Exists(Readme(p)) THEN Readme(p)
    ELSE <<>>

\* d[k] = v
Store(d, k, v) == [x \in (DOMAIN d) \cup {k} |-> IF x = k THEN v ELSE d[x]]

(* FileParser._parse_class.  The body of a classdef is the list of its    *)
(* declarations in source order; a declaration is an enumeration member,  *)
(* a property, or a method with the accessor marker its signature has     *)
(* ("get", "set" or "none").  The parsed objects are kept in the order    *)
(* they are built, an object's identity is its index, its lineno the      *)
(* position of its declaration.                                           *)

Decl(kind, acc, name) == [kind |-> kind, acc |-> acc, name |-> name]

\* the inputs of a method as declared: obj, and the value of a setter
MethodInputs(d) == IF d.acc = "set" THEN <<"obj", "value">> ELSE <<"obj">>

\* Enumeration(...), Property(...) or Function(...) for the i-th declaration
ObjectOf(body, i) ==
    [kind |-> IF body[i].kind = "method" THEN "function" ELSE body[i].kind,
     name |-> body[i].name, lineno |-> i, getter |-> None, setter |-> None,
     is_getter |-> body[i].acc = "get", is_setter |-> body[i].acc = "set",
     arguments |-> IF body[i].kind = "method" THEN MethodInputs(body[i]) ELSE <<>>]

\* the name of the class: self.filepath.stem
CLASS_NAME == "K"

\* method.arguments._args = method.arguments._args[1:] for a method that
\* is not the constructor (no method of the bodies is Static)
WithoutSelf(m) ==
    IF m.name # CLASS_NAME /\ m.arguments # <<>>
    THEN [m EXCEPT !.arguments = Tail(@)] ELSE m

NewClass == [objs |-> <<>>, members |-> <<>>]

\* object.members[o.name] = o
AddMember(c, o) ==
    [objs |-> Append(c.objs, o), members |-> Store(c.members, o.name, Len(c.objs) + 1)]
\* prop.getter = method
BindGetter(c, m) ==
    [c EXCEPT !.objs = Append([@ EXCEPT ![c.members[m.name]].getter = Len(c.objs) + 1], m)]
\* prop.setter = method
BindSetter(c, m) ==
    [c EXCEPT !.objs = Append([@ EXCEPT ![c.members[m.name]].setter = Len(c.objs) + 1], m)]
\* pass: the method is built and kept nowhere
Unbound(c, m) == [c EXCEPT !.objs = Append(@, m)]

\* isinstance(object.members[name], Property)
IsProperty(c, name) == c.objs[c.members[name]].kind = "property"

\* the if / elif / else that ends the loop over the methods of a block
PlaceMethod(c, m) ==
    IF m.is_getter /\ m.name \in DOMAIN c.members
    THEN (IF IsProperty(c, m.name) THEN BindGetter(c, m) ELSE Unbound(c, m))
    ELSE IF m.is_setter /\ m.name \in DOMAIN c.members
    THEN (IF IsProperty(c, m.name) THEN BindSetter(c, m) ELSE Unbound(c, m))
    ELSE AddMember(c, m)

\* what one declaration of the kind being collected does to the class
ParseDecl(c, body, i) ==
    IF body[i].kind = "method" THEN PlaceMethod(c, WithoutSelf(ObjectOf(body, i)))
    ELSE AddMember(c, ObjectOf(body, i))

RECURSIVE ParseDecls(_, _, _, _)
\* one of the three loops of _parse_class: the declarations of one kind,
\* in source order
ParseDecls(c, body, kind, i) ==
    IF i > Len(body) THEN c
    ELSE ParseDecls(IF body[i].kind = kind THEN ParseDecl(c, body, i) ELSE c,
                    body, kind, i + 1)

\* FileParser._parse_class: enumerations, then properties, then methods
parse_class(body) ==
    ParseDecls(ParseDecls(ParseDecls(NewClass, body, "enumeration", 1),
                          body, "property", 1),
               body, "method", 1)

\* The content of a classdef file is [bases, body]: the superclasses it
\* names (the @bases capture of CLASS_QUERY) and the declarations of its
\* body.  The content of a function file is [inputs, acc]: the inputs of
\* its signature and the accessor marker before its name.  A file that
\* content does not list is a classdef or a function that declares nothing.
ClassBases(content, p) ==
    IF FileKind(p) = "class" /\ p \in DOMAIN content THEN content[p].bases ELSE <<>>
BodyOf(content, p) ==
    IF FileKind(p) = "class" /\ p \in DOMAIN content THEN content[p].body ELSE <<>>
Signature(content, p) ==
    IF FileKind(p) = "function" /\ p \in DOMAIN content THEN content[p]
    ELSE [inputs |-> <<>>, acc |-> "none"]

\* what FileParser(path).parse() builds for a file that parses: for a
\* function file _parse_function without method=True, so that the function
\* is named after the file and keeps every input of its signature
Parsed(content, p) ==
    [NewObject(FileKind(p), Stem(Last(p)), p, FileDoc(p)) EXCEPT
        !.bases = ClassBases(content, p),
        !.arguments = Signature(content, p).inputs,
        !.is_getter = Signature(content, p).acc = "get",
        !.is_setter = Signature(content, p).acc = "set"]

\* an object _parse_class built, on the heap: k is the identity of its class
Built(m, k, p) ==
    [NewObject(m.kind, Str("", <<m.name>>), p, <<>>) EXCEPT
        !.parent = k,
        !.arguments = m.arguments,
        !.is_getter = m.is_getter,
        !.is_setter = m.is_setter,
        !.getter = IF m.getter = None THEN None ELSE k + m.getter,
        !.setter = IF m.setter = None THEN None ELSE k + m.setter]

\* the class of a classdef file with the objects of its body behind it
ParsedClassFile(content, p, k) ==
    LET c == parse_class(BodyOf(content, p))
    IN  <<[Parsed(content, p) EXCEPT
              !.members = [n \in {Str("", <<x>>) : x \in DOMAIN c.members} |->
                              k + c.members[n.segs[1]]]]>>
        \o [i \in 1..Len(c.objs) |-> Built(c.objs[i], k, p)]

\* _PathResolver._collect_path: FileParser(path).parse(), then the lines cache
CollectPath(st, p) ==
    IF FileKind(p) = "bad" THEN Raise(st, "SyntaxError")
    ELSE [st EXCEPT
            !.heap = @ \o ParsedClassFile(st.input, p, Len(st.heap) + 1),
            !.lines = @ \cup {p},
            !.ret = Len(st.heap) + 1]

RECURSIVE Actual(_, _, _), Call(_, _, _), DirLoop(_, _, _, _, _), ClassLoop(_, _, _, _, _)

\* One member of a directory or class folder taken from the alias table:
\* self._paths_collection._objects[item].target
MemberTarget(st, item) ==
    IF item \notin DOMAIN st.objects THEN Raise(st, "KeyError")
    ELSE Actual(st, "objects", item)

\* object.members[subobject.name] = subobject, and with set_parent
\* subobject.parent = object; s is the state in which the subobject was
\* obtained (s.ret), unless obtaining it raised
Attach(s, obj, set_parent) ==
    IF s.err # "none" THEN s
    ELSE IF set_parent
    THEN SetParent(SetMember(s, obj, s.heap[s.ret].name, s.ret), s.ret, obj)
    ELSE SetMember(s, obj, s.heap[s.ret].name, s.ret)

\* object.docstring = contentsfile.docstring
TakeDoc(s, obj) ==
    IF s.err # "none" THEN s ELSE SetDoc(s, obj, s.heap[s.ret].doc)

\* the body of the for loop of _PathResolver._collect_directory
DirItem(st, item, obj, set_parent) ==
    IF IsDir(item) /\ Last(item).pre \in FOLDER_PREFIXES
    THEN Attach(MemberTarget(st, item), obj, set_parent)
    ELSE IF IsFile(item) /\ Last(item).suf = MFILE_SUFFIX
    THEN
        IF Last(item) = CONTENTS_FILE THEN TakeDoc(CollectPath(st, item), obj)
        ELSE Attach(MemberTarget(st, item), obj, set_parent)
    ELSE st

\* the loop goes on to its next item unless the body raised
DirNext(s, p, obj, set_parent, i) ==
    IF s.err # "none" THEN s ELSE DirLoop(s, p, obj, set_parent, i + 1)

\* the for loop of _PathResolver._collect_directory, from its i-th item
DirLoop(st, p, obj, set_parent, i) ==
    IF i > Len(Tree[p]) THEN st
    ELSE DirNext(DirItem(st, p \o <<Tree[p][i]>>, obj, set_parent), p, obj, set_parent, i)

\* after the loop: the README as docstring if there is none yet, and
\* return object
Finish(s, p, obj) ==
    IF s.err # "none" THEN s
    ELSE Return(IF s.heap[obj].doc = <<>> THEN SetDoc(s, obj, CollectReadme(p)) ELSE s, obj)

\* _PathResolver._collect_directory
CollectDirectory(st, p, obj, set_parent) ==
    Finish(DirLoop(st, p, obj, set_parent, 1), p, obj)

\* a Function among the files of a class folder becomes a method:
\* method.parent = object; object.members[method.name] = method
ClassMethod(s, obj) ==
    IF s.err # "none" THEN s
    ELSE IF s.heap[s.ret].kind = "function"
    THEN SetMember(SetParent(s, s.ret, obj), obj, s.heap[s.ret].name, s.ret)
    ELSE s

\* the body of the for loop of _PathResolver._collect_classfolder
ClassItem(st, member, classfile, obj) ==
    IF IsFile(member) /\ Last(member).suf = MFILE_SUFFIX /\ member # classfile
    THEN
        IF Last(member) = CONTENTS_FILE /\ st.heap[obj].doc = <<>>
        THEN TakeDoc(CollectPath(st, member), obj)
        ELSE ClassMethod(MemberTarget(st, member), obj)
    ELSE st

ClassNext(s, p, classfile, obj, i) ==
    IF s.err # "none" THEN s ELSE ClassLoop(s, p, classfile, obj, i + 1)

\* the for loop of _PathResolver._collect_classfolder, from its i-th item
ClassLoop(st, p, classfile, obj, i) ==
    IF i > Len(Tree[p]) THEN st
    ELSE ClassNext(ClassItem(st, p \o <<Tree[p][i]>>, classfile, obj), p, classfile, obj, i)

\* path / (path.name[1:] + ".m")
ClassFile(p) == p \o <<Comp("", Strip1(Last(p)).segs, MFILE_SUFFIX)>>

\* _collect_classfolder once the class file is parsed (s.ret)
ClassBody(s, p) ==
    IF s.err # "none" THEN s
    ELSE IF s.heap[s.ret].kind # "class" THEN Return(s, None)
    ELSE Finish(ClassLoop(s, p, ClassFile(p), s.ret, 1), p, s.ret)

\* _PathResolver._collect_classfolder
CollectClassfolder(st, p) ==
    IF ~Exists(ClassFile(p)) THEN Return(st, None)
    ELSE ClassBody(CollectPath(st, ClassFile(p)), p)

\* a new object on the heap; its identity is Len(st.heap) + 1
Alloc(st, o) == [st EXCEPT !.heap = Append(@, o)]

\* _collect_namespace with set_parent=False
CollectNamespaceLoose(st, p) ==
    CollectDirectory(
        Alloc(st, NewObject("namespace", Str("", <<Last(ResolverName(p).segs)>>), p, <<>>)),
        p, Len(st.heap) + 1, FALSE)

\* _PathResolver._collect_namespace
CollectNamespace(st, p) ==
    CollectDirectory(
        Alloc(st, NewObject("namespace", Str("", <<Last(ResolverName(p).segs)>>), p, <<>>)),
        p, Len(st.heap) + 1, TRUE)

\* _PathResolver._collect_folder
CollectFolder(st, p) ==
    CollectDirectory(
        Alloc(st, NewObject("folder", Str("/", Stem(Last(p)).segs), p, <<>>)),
        p, Len(st.heap) + 1, FALSE)

\* the if/elif chain of _PathResolver.__call__
Collect(st, p) ==
    IF is_class_folder(p) THEN CollectClassfolder(st, p)
    ELSE IF is_namespace(p) THEN CollectNamespace(st, p)
    ELSE IF is_folder(p) THEN CollectFolder(st, p)
    ELSE CollectPath(st, p)

\* self._object = <what was collected>
KeepObject(s, tab, p) ==
    IF s.err # "none" THEN s ELSE PutRobj(s, tab, p, s.ret)

\* the tail of __call__.  The parent it reads from _objects is an Alias,
\* never a Namespace instance, so the branch that would set the parent is
\* not taken and the ValueError of the other branch is built but not
\* raised; what is left of it is the KeyError of the subscript.
ParentCheck(s, p) ==
    IF s.err # "none" THEN s
    ELSE IF s.ret # None /\ is_in_namespace(p) /\ Parent(p) \notin DOMAIN s.objects
    THEN Raise(s, "KeyError")
    ELSE s

\* _PathResolver.__call__ of the resolver behind the alias tab[p]
Call(st, tab, p) ==
    IF ~Exists(p) THEN Raise(st, "FileNotFoundError")
    ELSE ParentCheck(IF GetAlias(st, tab, p).robj = None
                     THEN KeepObject(Collect(st, p), tab, p)
                     ELSE Return(st, GetAlias(st, tab, p).robj),
                     p)

\* self._target = self._constructor()
Construct(s, tab, p) ==
    IF s.err # "none" THEN s ELSE PutTarget(s, tab, p, s.ret)

\* target = self._target; raise ValueError if it is None, else return it.
\* Targets built by the resolver are objects, never aliases, so the
\* unwrapping loop does not iterate.
ReadTarget(s, tab, p) ==
    IF s.err # "none" THEN s
    ELSE IF GetAlias(s, tab, p).target = None THEN Raise(s, "ValueError")
    ELSE Return(s, GetAlias(s, tab, p).target)

\* Alias._actual (one thread): materialize on first access, then return
\* the target
Actual(st, tab, p) ==
    ReadTarget(IF GetAlias(st, tab, p).target = None
               THEN Construct(Call(st, tab, p), tab, p)
               ELSE st,
               tab, p)

---------------------------------------------------------------------------
(* PathsCollection *)

\* The collection as one value, for the operators that thread it.
Cur ==
    [path |-> path, mapping |-> mapping, okeys |-> okeys, objects |-> objects,
     members |-> members, folders |-> folders, heap |-> heap, lines |-> lines,
     input |-> input, err |-> "none", ret |-> None]

\* d[k].append(v) on a defaultdict: a missing key starts from the empty value
AppendAt(d, k, v) ==
    [x \in (DOMAIN d) \cup {k} |->
        IF x = k THEN (IF k \in DOMAIN d THEN Append(d[k], v) ELSE <<v>>) ELSE d[x]]
\* d.pop(k)
Drop(d, k) == [x \in (DOMAIN d) \ {k} |-> d[x]]

\* self._objects[member] = Alias(member.stem, target=_PathResolver(...)):
\* a key that is already there keeps its place in the dict
Register(st, member) ==
    [st EXCEPT
        !.okeys = IF member \in DOMAIN st.objects THEN @ ELSE Append(@, member),
        !.objects = Store(@, member, NewAlias(Stem(Last(member))))]

RECURSIVE RegisterLoop(_, _, _)
\* first loop of addpath: a fresh Alias for every path the globber emits
RegisterLoop(st, glob, i) ==
    IF i > Len(glob) THEN st
    ELSE RegisterLoop(Register(st, glob[i]), glob, i + 1)

RECURSIVE MapLoop(_, _, _, _)

\* the body of the second loop of addpath, once object.path was read:
\* s.ret is the target the read went through
MapEntry(s, root, member) ==
    [s EXCEPT
        !.mapping = AppendAt(@, ObjPath(s.heap, s.ret), member),
        !.members = AppendAt(@, root, <<s.objects[member].name, member>>),
        !.folders = IF Parent(member) \in DOMAIN @ THEN @
                    ELSE Store(@, Parent(member), NewAlias(Str("/", <<>>)))]

MapNext(s, root, keys, i) ==
    IF s.err # "none" THEN s
    ELSE MapLoop(MapEntry(s, root, keys[i]), root, keys, i + 1)

\* second loop of addpath, over self._objects.items() from its i-th key.
\* object.path is not an attribute of Alias: it is forwarded by __getattr__
\* to the target, which materializes the alias.
MapLoop(st, root, keys, i) ==
    IF i > Len(keys) THEN st
    ELSE MapNext(Actual(st, "objects", keys[i]), root, keys, i)

\* the search path with root taken out and put at the chosen end
NewPath(old, root, to_end) ==
    IF to_end THEN Append(RemoveFirst(old, root), root)
    ELSE <<root>> \o RemoveFirst(old, root)

MapAll(s, root) == MapLoop(s, root, s.okeys, 1)

\* PathsCollection.addpath
AddPath(st, root, to_end, recursive) ==
    MapAll(RegisterLoop([st EXCEPT !.path = NewPath(@, root, to_end)],
                        Glob(root, recursive), 1),
           root)

RECURSIVE RmLoop(_, _, _)

\* self._objects.pop(member), after self._mapping[name].remove(member)
PopAlias(s, lst, i) ==
    IF lst[i][2] \notin DOMAIN s.objects THEN Raise(s, "KeyError")
    ELSE RmLoop([s EXCEPT !.objects = Drop(@, lst[i][2]),
                          !.okeys = RemoveFirst(@, lst[i][2])],
                lst, i + 1)

\* self._mapping[name].remove(member): the subscript has created the key
RemoveCandidate(s, lst, i) ==
    IF lst[i][2] \notin SeqRange(s.mapping[lst[i][1]]) THEN Raise(s, "ValueError")
    ELSE PopAlias([s EXCEPT !.mapping[lst[i][1]] = RemoveFirst(@, lst[i][2])], lst, i)

\* the for loop of rm_path over the popped list of (name, member)
RmLoop(st, lst, i) ==
    IF i > Len(lst) THEN st
    ELSE RemoveCandidate(
            [st EXCEPT !.mapping =
                IF lst[i][1] \in DOMAIN @ THEN @ ELSE Store(@, lst[i][1], <<>>)],
            lst, i)

\* _is_subdirectory: child_path.relative_to(parent_path) succeeds
IsSubdirectory(parent_path, child_path) ==
    /\ Len(parent_path) <= Len(child_path)
    /\ SubSeq(child_path, 1, Len(parent_path)) = parent_path

\* rm_path without its recursive tail
RmPathOne(st, root) ==
    IF root \notin SeqRange(st.path) THEN st
    ELSE IF root \notin DOMAIN st.members
    THEN Raise([st EXCEPT !.path = RemoveFirst(@, root)], "KeyError")
    ELSE RmLoop([st EXCEPT !.path = RemoveFirst(@, root), !.members = Drop(@, root)],
                st.members[root], 1)

RECURSIVE RmSubdirs(_, _, _)

RmSubdirsNext(s, subdirs, i) ==
    IF s.err # "none" THEN s ELSE RmSubdirs(s, subdirs, i + 1)

\* for subdir in [...]: self.rm_path(subdir, recursive=False)
RmSubdirs(st, subdirs, i) ==
    IF i > Len(subdirs) THEN st
    ELSE RmSubdirsNext(RmPathOne(st, subdirs[i]), subdirs, i)

\* the recursive tail of rm_path
RmTail(s, root, recursive) ==
    IF s.err # "none" \/ ~recursive THEN s
    ELSE RmSubdirs(s, SelectSeq(s.path, LAMBDA item : IsSubdirectory(root, item)), 1)

\* PathsCollection.rm_path
RmPath(st, root, recursive) ==
    IF root \notin SeqRange(st.path) THEN st
    ELSE RmTail(RmPathOne(st, root), root, recursive)

RECURSIVE GetItem(_, _)

\* base.members[name_parts[-1]] of the base that get_member returned
MemberOf(s, last) ==
    IF s.err # "none" THEN s
    ELSE IF s.ret = None THEN s
    ELSE IF last \notin DOMAIN s.heap[s.ret].members THEN Return(s, None)
    ELSE Return(s, s.heap[s.ret].members[last])

\* PathsCollection.__getitem__ for an identifier without "/".  What it
\* finds is an object, never an Alias, so the final unwrapping is the
\* identity.
GetItem(st, id) ==
    IF id \in DOMAIN st.mapping
    THEN
        IF st.mapping[id] = <<>> THEN Raise(st, "IndexError")
        ELSE IF st.mapping[id][1] \notin DOMAIN st.objects THEN Raise(st, "KeyError")
        ELSE Actual(st, "objects", st.mapping[id][1])
    ELSE IF Len(id.segs) > 1
    THEN MemberOf(GetItem(st, Str(id.pre, Front(id.segs))), Str("", <<Last(id.segs)>>))
    ELSE Return(st, None)

\* the member of the folder object, for a path that names a file
FolderMember(s, p) ==
    IF s.err # "none" THEN s
    ELSE IF s.heap[s.ret].kind = "folder" /\ Last(p).suf # ""
    THEN IF Stem(Last(p)) \in DOMAIN s.heap[s.ret].members
         THEN Return(s, s.heap[s.ret].members[Stem(Last(p))])
         ELSE Return(s, None)
    ELSE s

\* absolute_path.parent for a path with a suffix, else the path itself
FolderOf(p) == IF Last(p).suf # "" THEN Parent(p) ELSE p

\* PathsCollection.__getitem__ for an identifier with "/": p is the
\* identifier resolved against the working directory.
GetItemPath(st, p) ==
    IF ~Exists(p) THEN Return(st, None)
    ELSE IF FolderOf(p) \notin DOMAIN st.folders THEN Return(st, None)
    ELSE FolderMember(Actual(st, "folders", FolderOf(p)), p)

\* try: return self.__getitem__(identifier) is not None
\* except KeyError: return False
IsNotNone(s) ==
    IF s.err = "KeyError" THEN [s EXCEPT !.err = "none", !.ret = FALSE]
    ELSE IF s.err # "none" THEN s
    ELSE Return(s, s.ret # None)

\* PathsCollection.__contains__: TRUE/FALSE in ret, or the exception it lets through
Contains(st, id) == IsNotNone(GetItem(st, id))

---------------------------------------------------------------------------
(* Class: resolved_bases, _mro and mro.  An mro is a list of object      *)
(* identities.  When _mro raises, ret carries what the message names: the *)
(* chain of class paths for an inheritance cycle, the empty list when the *)
(* merge finds no candidate.                                              *)

\* x occurs in the tail of one of the lists
InTails(lists, x) ==
    \E i \in 1..Len(lists) : lists[i] # <<>> /\ x \in SeqRange(Tail(lists[i]))

\* the lists whose head is a candidate: it is in no tail
GoodHeads(lists) ==
    {i \in 1..Len(lists) : lists[i] # <<>> /\ ~InTails(lists, Head(lists[i]))}

\* the first of the lists whose head is a candidate
FirstGood(lists) == CHOOSE i \in GoodHeads(lists) : \A j \in GoodHeads(lists) : i <= j

\* every list that starts with x loses its head
RemoveHead(lists, x) ==
    [i \in 1..Len(lists) |->
        IF lists[i] # <<>> /\ Head(lists[i]) = x THEN Tail(lists[i]) ELSE lists[i]]

RECURSIVE MergeLoop(_, _)

MergePick(lists, merged, head) == MergeLoop(RemoveHead(lists, head), Append(merged, head))

\* the loop of c3linear_merge: done when every list is exhausted, failed
\* when no head is a candidate
MergeLoop(lists, merged) ==
    IF \A i \in 1..Len(lists) : lists[i] = <<>> THEN [ok |-> TRUE, list |-> merged]
    ELSE IF GoodHeads(lists) = {} THEN [ok |-> FALSE, list |-> merged]
    ELSE MergePick(lists, merged, Head(lists[FirstGood(lists)]))

c3linear_merge(lists) == MergeLoop(lists, <<>>)

RECURSIVE ResolveLoop(_, _, _, _)

\* the try / except (CyclicAliasError, KeyError) / else around one
\* get_member(base): s is the state the lookup left
ResolveNext(s, bases, i, acc) ==
    IF s.err \in {"KeyError", "CyclicAliasError"}
    THEN ResolveLoop(Raise(s, "none"), bases, i + 1, acc)
    ELSE IF s.err # "none" THEN s
    ELSE ResolveLoop(s, bases, i + 1, Append(acc, s.ret))

\* the for loop of Class.resolved_bases from its i-th base
ResolveLoop(st, bases, i, acc) ==
    IF i > Len(bases) THEN Return(st, acc)
    ELSE ResolveNext(GetItem(st, bases[i]), bases, i, acc)

\* Class.resolved_bases
resolved_bases(st, o) == ResolveLoop(st, st.heap[o].bases, 1, <<>>)

\* isinstance(base, Class)
IsClass(h, b) == b # None /\ h[b].kind = "class"

RECURSIVE Mro(_, _, _), MroEach(_, _, _, _, _)

\* the message names the repeated class alone, not the chain that led to it
RaiseCycleBare(s, seen, base) ==
    [Raise(s, "ValueError") EXCEPT !.ret = <<ObjPath(s.heap, base)>>]
\* raise ValueError(... inheritance cycle detected: seen -> base.path)
RaiseCycle(s, seen, base) ==
    [Raise(s, "ValueError") EXCEPT !.ret = Append(seen, ObjPath(s.heap, base))]

\* return [self, *merged], or the ValueError of a merge that failed
MroResult(s, o, m) ==
    IF m.ok THEN Return(s, <<o>> \o m.list)
    ELSE [Raise(s, "ValueError") EXCEPT !.ret = <<>>]

\* [self, *c3linear_merge(*mros, bases)]: s.ret is the list of the bases' mros
MroMerge(s, o, bases) ==
    IF s.err # "none" THEN s
    ELSE MroResult(s, o, c3linear_merge(Append(s.ret, bases)))

MroEachNext(s, bases, seen, i, acc) ==
    IF s.err # "none" THEN s ELSE MroEach(s, bases, seen, i + 1, Append(acc, s.ret))

\* [base._mro(seen) for base in bases] from its i-th base
MroEach(st, bases, seen, i, acc) ==
    IF i > Len(bases) THEN Return(st, acc)
    ELSE MroEachNext(Mro(st, bases[i], seen), bases, seen, i, acc)

\* the bases whose path is already in seen
OnChain(s, seen, bases) ==
    {i \in 1..Len(bases) : ObjPath(s.heap, bases[i]) \in SeqRange(seen)}

\* _mro after bases was computed
MroBody(s, o, seen, bases) ==
    IF bases = <<>> THEN Return(s, <<o>>)
    ELSE IF OnChain(s, seen, bases) # {}
    THEN RaiseCycle(s, seen,
                    bases[CHOOSE i \in OnChain(s, seen, bases) :
                                \A j \in OnChain(s, seen, bases) : i <= j])
    ELSE MroMerge(MroEach(s, bases, seen, 1, <<>>), o, bases)

\* bases = [base for base in self.resolved_bases if isinstance(base, Class)]
MroBases(s, o, seen) ==
    IF s.err # "none" THEN s
    ELSE MroBody(s, o, seen, SelectSeq(s.ret, LAMBDA b : IsClass(s.heap, b)))

\* Class._mro: seen = (*seen, self.path)
Mro(st, o, seen) ==
    MroBases(resolved_bases(st, o), o, Append(seen, ObjPath(st.heap, o)))

\* the slice left out: self stays at the head of the list
KeepSelf(s) == s
\* [1:] of what _mro returned
DropSelf(s) == IF s.err # "none" THEN s ELSE Return(s, Tail(s.ret))

\* Class.mro: self._mro()[1:]
MroOf(st, o) == DropSelf(Mro(st, o, <<>>))

---------------------------------------------------------------------------
(* The calls a client makes *)

NoId == Str("", <<>>)
OpAdd(root, to_end, recursive) ==
    [op |-> "addpath", root |-> root, to_end |-> to_end, recursive |-> recursive, id |-> NoId,
     raised |-> "none"]
OpRm(root, recursive) ==
    [op |-> "rm_path", root |-> root, to_end |-> FALSE, recursive |-> recursive, id |-> NoId,
     raised |-> "none"]
OpGet(id) ==
    [op |-> "getitem", root |-> <<>>, to_end |-> FALSE, recursive |-> FALSE, id |-> id,
     raised |-> "none"]
OpGetPath(p) ==
    [op |-> "getitem", root |-> p, to_end |-> FALSE, recursive |-> FALSE, id |-> NoId,
     raised |-> "none"]

Id1(a) == Str("", <<a>>)
Id2(a, b) == Str("", <<a, b>>)
NsId(a) == Str(NAMESPACE_PREFIX, <<a>>)

\* identifiers looked up
LookupIds ==
    {Id1("util"), NsId("pkg"), Id2("pkg", "bar"), Id1("C"), Id2("C", "f"), Id1("nope")}
\* "/" identifiers looked up
LookupPaths == {RootB \o <<File("util")>>}

\* the state after the call returned or raised; hist keeps the call and
\* the exception it raised, if any
Becomes(st, call) ==
    /\ path' = st.path
    /\ mapping' = st.mapping
    /\ okeys' = st.okeys
    /\ objects' = st.objects
    /\ members' = st.members
    /\ folders' = st.folders
    /\ heap' = st.heap
    /\ lines' = st.lines
    /\ err' = st.err
    /\ result' = IF st.err = "none" THEN st.ret ELSE None
    /\ hist' = Append(hist, [call EXCEPT !.raised = st.err])
    /\ UNCHANGED <<thrVars, funVars>>

\* the state after a call whose answer is kept in output: what it returned,
\* or the exception it raised with what the message names
Answers(st, call) ==
    /\ path' = st.path
    /\ mapping' = st.mapping
    /\ okeys' = st.okeys
    /\ objects' = st.objects
    /\ members' = st.members
    /\ folders' = st.folders
    /\ heap' = st.heap
    /\ lines' = st.lines
    /\ err' = st.err
    /\ result' = None
    /\ hist' = Append(hist, [call EXCEPT !.raised = st.err])
    /\ output' = [err |-> st.err, ret |-> st.ret]
    /\ UNCHANGED <<thrVars, input>>

\* the values of recursive that make a difference for a root: both when
\* the root has a plain subdirectory, FALSE alone when it has none
RecursiveFlags(root) ==
    IF \E i \in 1..Len(Tree[root]) :
            IsDir(root \o <<Tree[root][i]>>) /\ Tree[root][i].pre \notin FOLDER_PREFIXES
    THEN BOOLEAN ELSE {FALSE}

CallAddPath ==
    /\ Len(hist) < MaxOps
    /\ \E root \in Roots, to_end \in BOOLEAN :
          \E recursive \in RecursiveFlags(root) :
              Becomes(AddPath(Cur, root, to_end, recursive), OpAdd(root, to_end, recursive))

CallRmPath ==
    /\ Len(hist) < MaxOps
    /\ \E root \in Roots :
          \E recursive \in RecursiveFlags(root) :
              Becomes(Return(RmPath(Cur, root, recursive), None), OpRm(root, recursive))

CallGetItem ==
    /\ Len(hist) < MaxOps
    /\ \/ \E id \in LookupIds : Becomes(GetItem(Cur, id), OpGet(id))
       \/ \E p \in LookupPaths : Becomes(GetItemPath(Cur, p), OpGetPath(p))

CollInit ==
    /\ path = <<>>
    /\ mapping = <<>>
    /\ okeys = <<>>
    /\ objects = <<>>
    /\ members = <<>>
    /\ folders = <<>>
    /\ heap = <<>>
    /\ lines = {}
    /\ err = "none"
    /\ result = None
    /\ hist = <<>>

ThrInit ==
    /\ aTarget = None
    /\ aLock = 0
    /\ built = {}
    /\ making = [t \in 1..MaxThreads |-> None]
    /\ ctorCalls = 0
    /\ tpc = [t \in 1..MaxThreads |-> "idle"]
    /\ tgot = [t \in 1..MaxThreads |-> None]

\* no file content is varied and no function is applied on its own
FunInit ==
    /\ input = <<>>
    /\ output = <<>>

Init == CollInit /\ ThrInit /\ ctorOutcome = "object" /\ FunInit

Next == CallAddPath \/ CallRmPath \/ CallGetItem

Spec == Init /\ [][Next]_vars

---------------------------------------------------------------------------
(* Alias._actual run by several threads on one alias that was built from  *)
(* a callable.  Every read and write of _target is one step; the          *)
(* constructor call is entered in one step and returns in another.        *)

Threads == 1..MaxThreads

\* Alias.resolved as read at the outer test (objects.py line 599)
OuterUnresolved == aTarget = None
\* the test under the lock left out: whoever passed the outer test builds
InnerUnresolvedUntested == TRUE
\* Alias.resolved as read under the lock (objects.py line 601)
InnerUnresolved == aTarget = None

Goto(t, label) == tpc' = [tpc EXCEPT ![t] = label]

\* a thread reads alias.target
ThrBegin(t) ==
    /\ tpc[t] = "idle"
    /\ Goto(t, "outer")
    /\ UNCHANGED <<aTarget, aLock, built, making, ctorCalls, ctorOutcome, tgot>>

\* if not self.resolved:
ThrOuter(t) ==
    /\ tpc[t] = "outer"
    /\ Goto(t, IF OuterUnresolved THEN "acquire" ELSE "read")
    /\ UNCHANGED <<aTarget, aLock, built, making, ctorCalls, ctorOutcome, tgot>>

\* with self._lock:
ThrAcquire(t) ==
    /\ tpc[t] = "acquire"
    /\ aLock = 0
    /\ aLock' = t
    /\ Goto(t, "inner")
    /\ UNCHANGED <<aTarget, built, making, ctorCalls, ctorOutcome, tgot>>

\* if not self.resolved: ... self._constructor() is entered
ThrInner(t) ==
    /\ tpc[t] = "inner"
    /\ IF InnerUnresolved
       THEN /\ ctorCalls' = ctorCalls + 1
            /\ making' = [making EXCEPT ![t] = ctorCalls + 1]
            /\ Goto(t, "construct")
       ELSE /\ Goto(t, "release")
            /\ UNCHANGED <<ctorCalls, making>>
    /\ UNCHANGED <<aTarget, aLock, built, ctorOutcome, tgot>>

\* self._constructor() returns an object, returns None, or raises
ThrConstruct(t) ==
    /\ tpc[t] = "construct"
    /\ IF ctorOutcome = "object"
       THEN /\ built' = built \cup {making[t]}
            /\ Goto(t, "assign")
            /\ UNCHANGED <<making, aLock>>
       ELSE IF ctorOutcome = "none"
       THEN /\ making' = [making EXCEPT ![t] = None]
            /\ Goto(t, "assign")
            /\ UNCHANGED <<built, aLock>>
       ELSE /\ making' = [making EXCEPT ![t] = None]
            /\ aLock' = 0
            /\ Goto(t, "raised")
            /\ UNCHANGED built
    /\ UNCHANGED <<aTarget, ctorCalls, ctorOutcome, tgot>>

\* self._target = <what the constructor returned>
ThrAssign(t) ==
    /\ tpc[t] = "assign"
    /\ aTarget' = making[t]
    /\ Goto(t, "release")
    /\ UNCHANGED <<aLock, built, making, ctorCalls, ctorOutcome, tgot>>

\* leaving the with block
ThrRelease(t) ==
    /\ tpc[t] = "release"
    /\ aLock' = 0
    /\ Goto(t, "read")
    /\ UNCHANGED <<aTarget, built, making, ctorCalls, ctorOutcome, tgot>>

\* target = self._target; raise if it is None, else return it
ThrRead(t) ==
    /\ tpc[t] = "read"
    /\ tgot' = [tgot EXCEPT ![t] = aTarget]
    /\ Goto(t, IF aTarget = None THEN "raised" ELSE "done")
    /\ UNCHANGED <<aTarget, aLock, built, making, ctorCalls, ctorOutcome>>

ThrStep(t) ==
    \/ ThrBegin(t)
    \/ ThrOuter(t)
    \/ ThrAcquire(t)
    \/ ThrInner(t)
    \/ ThrConstruct(t)
    \/ ThrAssign(t)
    \/ ThrRelease(t)
    \/ ThrRead(t)

AliasNext == \E t \in Threads : ThrStep(t) /\ UNCHANGED <<collVars, funVars>>

\* what the callable does when called: the resolver returns the object it
\* built, returns None for a path that is neither file nor directory, or
\* lets the parser's exception through
AliasInit ==
    CollInit /\ ThrInit /\ ctorOutcome \in {"object", "none", "raise"} /\ FunInit

AliasSpec == AliasInit /\ [][AliasNext]_vars

\* C5: for an alias whose constructor returns an object, however the
\* threads that access its target interleave: the constructor is entered
\* at most once, and exactly once when an access has returned; every
\* access that has ended returned the one target, none raised; and the
\* alias is resolved only with an object whose construction has completed.
SingleMaterialization ==
    ctorOutcome = "object" =>
        /\ ctorCalls <= 1
        /\ \A t \in Threads :
              /\ tpc[t] # "raised"
              /\ tpc[t] = "done" =>
                    /\ ctorCalls = 1
                    /\ tgot[t] # None
                    /\ tgot[t] = aTarget
                    /\ \A u \in Threads : tpc[u] = "done" => tgot[u] = tgot[t]
        /\ aTarget # None => aTarget \in built

\* Two threads found the alias unresolved at the outer test; one has built
\* and returned the target, the other now holds the lock and finds the
\* alias resolved.
RacedAndShared ==
    /\ ctorOutcome = "object"
    /\ ctorCalls = 1
    /\ \E t \in Threads : \E u \in Threads \ {t} :
          /\ tpc[t] = "done"
          /\ tpc[u] = "inner"
          /\ aTarget # None
          /\ tgot[t] = aTarget

---------------------------------------------------------------------------
(* Class hierarchies.  The class files of root M extend what input says:  *)
(* input maps each of them to its superclass names and its body.  The root *)
(* is added and mro() is called on the class an identifier resolves to.   *)

\* Number of superclasses the class C of root M may name.
MaxBases == 2

ClassFiles == {RootM \o <<Tree[RootM][i]>> : i \in 1..Len(Tree[RootM])}
TopFile == RootM \o <<File("C")>>
ClassIds == {Stem(Last(p)) : p \in ClassFiles}
\* superclass names: the classes of root M, and Z that names nothing
BaseNames == ClassIds \cup {Id1("Z")}
BaseLists(n) == UNION {[1..k -> BaseNames] : k \in 0..n}
\* C names up to MaxBases superclasses, every other class at most one
Hierarchies ==
    {[p \in ClassFiles |-> [bases |-> IF p = TopFile THEN c ELSE f[p], body |-> <<>>]] :
        c \in BaseLists(MaxBases), f \in [ClassFiles \ {TopFile} -> BaseLists(1)]}

OpMro(id) ==
    [op |-> "mro", root |-> <<>>, to_end |-> FALSE, recursive |-> FALSE, id |-> id,
     raised |-> "none"]

\* collection.addpath(M)
MroAddPath ==
    /\ hist = <<>>
    /\ Becomes(AddPath(Cur, RootM, FALSE, FALSE), OpAdd(RootM, FALSE, FALSE))

\* s is the state collection[id] left: mro() of the class it returned
MroCall(s, id) ==
    /\ s.err = "none"
    /\ IsClass(s.heap, s.ret)
    /\ Answers(MroOf(s, s.ret), OpMro(id))

\* collection[id].mro()
CallMro ==
    /\ Len(hist) = 1
    /\ \E id \in ClassIds : MroCall(GetItem(Cur, id), id)

MroInit ==
    /\ CollInit /\ ThrInit /\ ctorOutcome = "object"
    /\ input \in Hierarchies
    /\ output = <<>>

MroNext == MroAddPath \/ CallMro

MroSpec == MroInit /\ [][MroNext]_vars

---------------------------------------------------------------------------
(* Class bodies FileParser._parse_class is run on.                        *)

\* Number of declarations in a class body.
MaxDecls == 3

MemberNames == {"P", "Q"}
Decls ==
    {Decl(k, "none", n) : k \in {"enumeration", "property", "method"}, n \in MemberNames}
        \cup {Decl("method", a, n) : a \in {"get", "set"}, n \in MemberNames}
\* a class body MATLAB accepts as far as names go: no declaration twice,
\* and no two of its enumeration members, properties and plain methods
\* share a name
ValidBody(b) ==
    \A i \in 1..Len(b) : \A j \in 1..Len(b) :
        (i # j /\ b[i].name = b[j].name)
            => /\ b[i] # b[j]
               /\ b[i].acc # "none" \/ b[j].acc # "none"
ClassBodies ==
    {b \in UNION {[1..k -> Decls] : k \in 0..MaxDecls} : ValidBody(b)}

OpParse(what) ==
    [op |-> what, root |-> <<>>, to_end |-> FALSE, recursive |-> FALSE, id |-> NoId,
     raised |-> "none"]

\* FileParser(K.m).parse() of a classdef file
ParseClassFile ==
    /\ hist = <<>>
    /\ hist' = <<OpParse("parse_class")>>
    /\ output' = parse_class(input)
    /\ UNCHANGED <<path, mapping, okeys, objects, members, folders, heap, lines, err,
                   result, thrVars, input>>

ClassInit ==
    /\ CollInit /\ ThrInit /\ ctorOutcome = "object"
    /\ input \in ClassBodies
    /\ output = <<>>

ClassSpec == ClassInit /\ [][ParseClassFile]_vars

\* the body declares a property named n
DeclaresProperty(n) == \E i \in 1..Len(input) : input[i] = Decl("property", "none", n)
\* the body declares no enumeration member, property or plain method named n
DeclaresNoMember(n) ==
    \A i \in 1..Len(input) : input[i].name = n => input[i].acc # "none"
ParsedClass == hist # <<>> /\ Last(hist).op = "parse_class"
\* the object members[n] of the parsed class
MemberObj(n) == output.objs[output.members[n]]

\* C13: for every method declared as get.P or set.P: when the body declares
\* the property P, members[P] is that property, its getter (setter) is the
\* method, and no entry of members is the method; when the body declares no
\* member P, members[P] is the method, a function.
GetterSetterBinding ==
    ParsedClass =>
        \A i \in 1..Len(input) :
            input[i].acc # "none" =>
                /\ DeclaresProperty(input[i].name) =>
                      /\ input[i].name \in DOMAIN output.members
                      /\ MemberObj(input[i].name).kind = "property"
                      /\ LET a == IF input[i].acc = "get"
                                  THEN MemberObj(input[i].name).getter
                                  ELSE MemberObj(input[i].name).setter
                         IN a # None /\ output.objs[a].lineno = i
                      /\ \A n \in DOMAIN output.members : MemberObj(n).lineno # i
                /\ DeclaresNoMember(input[i].name) =>
                      /\ input[i].name \in DOMAIN output.members
                      /\ MemberObj(input[i].name).lineno = i
                      /\ MemberObj(input[i].name).kind = "function"

---------------------------------------------------------------------------
(* FileParser._parse_function.  A function is given by what the queries   *)
(* capture: the inputs and outputs of its signature, and its arguments    *)
(* blocks, each with its attributes and its declarations in source order. *)
(* A declaration has the struct name it is qualified with ("" if none),   *)
(* its name, and whether it has a default value.  An OrderedDict of       *)
(* arguments is the list of its values.                                   *)

Argument(name, kind) == [name |-> name, kind |-> kind]
ArgDecl(options, name, default) == [options |-> options, name |-> name, default |-> default]
ArgBlock(attributes, decls) == [attributes |-> attributes, decls |-> decls]

\* OrderedDict((name, Argument(name, kind=positional_only)) for name in names)
Positional(names) == [i \in 1..Len(names) |-> Argument(names[i], "positional-only")]

\* arguments.pop(name, None): the option is not kept
PopKept(d, name) == d
\* arguments.pop(name, None)
Pop(d, name) == SelectSeq(d, LAMBDA a : a.name # name)

\* d[a.name] = a: in place when the key is there, at the end when not
SetArg(d, a) ==
    IF \E i \in 1..Len(d) : d[i].name = a.name
    THEN [i \in 1..Len(d) |-> IF d[i].name = a.name THEN a ELSE d[i]]
    ELSE Append(d, a)

\* d.get(name, Argument(name)).kind = kind: the argument of the dict when
\* it has one; a new Argument is in no dict
SetKind(d, name, kind) ==
    [i \in 1..Len(d) |-> IF d[i].name = name THEN [d[i] EXCEPT !.kind = kind] ELSE d[i]]

\* attributes is None or "Input" in attributes or "Output" not in attributes
is_input(attributes) == "Input" \in attributes \/ "Output" \notin attributes

\* ArgumentKind.optional if "default" in capture_argument, else positional_only
DeclaredKind(decl) == IF decl.default THEN "optional" ELSE "positional-only"

\* the body of the loop over the declarations of an arguments block
DeclareArgument(f, block, decl) ==
    IF decl.options # ""
    THEN [f EXCEPT !.arguments =
            SetArg(Pop(@, decl.options), Argument(decl.name, "keyword-only"))]
    ELSE IF is_input(block.attributes)
    THEN [f EXCEPT !.arguments = SetKind(@, decl.name, DeclaredKind(decl))]
    ELSE [f EXCEPT !.returns = SetKind(@, decl.name, DeclaredKind(decl))]

RECURSIVE DeclareBlock(_, _, _), DeclareBlocks(_, _, _)
\* for argument_node in _sort_nodes(capture_arguments["arguments"])
DeclareBlock(f, block, i) ==
    IF i > Len(block.decls) THEN f
    ELSE DeclareBlock(DeclareArgument(f, block, block.decls[i]), block, i + 1)
\* for capture_arguments in captures_arguments
DeclareBlocks(f, blocks, i) ==
    IF i > Len(blocks) THEN f
    ELSE DeclareBlocks(DeclareBlock(f, blocks[i], 1), blocks, i + 1)

\* FileParser._parse_function: the arguments and returns of the Function
parse_function(fn) ==
    DeclareBlocks([arguments |-> Positional(fn.inputs), returns |-> Positional(fn.outputs)],
                  fn.blocks, 1)

\* Number of declarations in an arguments block.
MaxArgs == 3

Signatures ==
    {<<>>, <<"x">>, <<"x", "y">>, <<"options">>, <<"x", "options">>, <<"x", "y", "options">>}
InputDecls ==
    {ArgDecl("", n, d) : n \in {"x", "y"}, d \in BOOLEAN}
        \cup {ArgDecl("options", n, d) : n \in {"flag", "text"}, d \in BOOLEAN}
\* the declarations of an input block that fit the signature: no name
\* twice, a plain declaration names an input, and the struct of a
\* name-value declaration is an input
ValidDecls(inputs, ds) ==
    /\ \A i \in 1..Len(ds) : \A j \in 1..Len(ds) : ds[i].name = ds[j].name => i = j
    /\ \A i \in 1..Len(ds) :
          IF ds[i].options = ""
          THEN \E k \in 1..Len(inputs) : inputs[k] = ds[i].name
          ELSE \E k \in 1..Len(inputs) : inputs[k] = ds[i].options
InputBlocks(inputs) ==
    {ArgBlock(a, ds) : a \in {{}, {"Input"}},
                       ds \in {x \in UNION {[1..k -> InputDecls] : k \in 1..MaxArgs} :
                                  ValidDecls(inputs, x)}}
OutputBlocks == {ArgBlock({"Output"}, <<ArgDecl("", "r", FALSE)>>)}
Fn(inputs, blocks) == [inputs |-> inputs, outputs |-> <<"r">>, blocks |-> blocks]
\* r = f(inputs) without an arguments block, or with an input block that
\* an output block may follow
Functions ==
    {Fn(i, <<>>) : i \in Signatures} \cup
    UNION {{Fn(i, <<b>> \o o) :
                b \in InputBlocks(i), o \in {<<>>} \cup {<<x>> : x \in OutputBlocks}} :
           i \in Signatures}

\* FileParser(f.m).parse() of a function file
ParseFunctionFile ==
    /\ hist = <<>>
    /\ hist' = <<OpParse("parse_function")>>
    /\ output' = parse_function(input)
    /\ UNCHANGED <<path, mapping, okeys, objects, members, folders, heap, lines, err,
                   result, thrVars, input>>

FunctionInit ==
    /\ CollInit /\ ThrInit /\ ctorOutcome = "object"
    /\ input \in Functions
    /\ output = <<>>

FunctionSpec == FunctionInit /\ [][ParseFunctionFile]_vars

ParsedFunction == hist # <<>> /\ Last(hist).op = "parse_function"
\* the kinds of the parsed arguments called n
KindsOf(args, n) == {args[i].kind : i \in {k \in 1..Len(args) : args[k].name = n}}
NoDuplicateNames(args) ==
    \A i \in 1..Len(args) : \A j \in 1..Len(args) : args[i].name = args[j].name => i = j

\* C14: in the arguments of a parsed function, every declaration
\* options.NAME of an input block, with or without a default, is an
\* argument NAME of kind keyword-only and there is no argument called
\* options; every declaration without a struct name is an argument of kind
\* optional when it has a default and positional-only when it has none.
KeywordOnlyClassification ==
    ParsedFunction =>
        /\ NoDuplicateNames(output.arguments)
        /\ \A b \in 1..Len(input.blocks) : \A i \in 1..Len(input.blocks[b].decls) :
              LET d == input.blocks[b].decls[i]
                  args == IF is_input(input.blocks[b].attributes)
                          THEN output.arguments ELSE output.returns
              IN  IF d.options # ""
                  THEN /\ KindsOf(output.arguments, d.name) = {"keyword-only"}
                       /\ KindsOf(output.arguments, d.options) = {}
                  ELSE KindsOf(args, d.name) = {DeclaredKind(d)}

\* f(x, options) with x declared with a default and options.flag declared
\* without one has been parsed.
KeywordOnlyParsed ==
    /\ ParsedFunction
    /\ input.inputs = <<"x", "options">>
    /\ Len(input.blocks) = 1
    /\ input.blocks[1].decls = <<ArgDecl("", "x", TRUE), ArgDecl("options", "flag", FALSE)>>
    /\ output.arguments = <<Argument("x", "optional"), Argument("flag", "keyword-only")>>

---------------------------------------------------------------------------
(* FileParser._comment_docstring, from the loop over the lines on.  A     *)
(* line is the sequence of its characters, where a run of text that holds *)
(* none of " ", "%", "{", "}" counts as one character: "t" is plain text,  *)
(* "#codegen" ... "#mex" what follows the "%" of a pragma, "--8<--" the    *)
(* snippet marker.                                                        *)

PragmaWords == {"#codegen", "#eml", "#external", "#exclude", "#function", "#ok", "#mex"}
\* the list of the pragma lines that are excluded
Pragmas == {<<"%", w>> : w \in PragmaWords}
SnippetMarker == "--8<--"

RECURSIVE lstrip(_)
\* str.lstrip()
lstrip(l) == IF l # <<>> /\ Head(l) = " " THEN lstrip(Tail(l)) ELSE l

\* line[:2] == two
StartsWith(l, two) == Len(l) >= 2 /\ SubSeq(l, 1, 2) = two
\* line[n:]
From(l, n) == SubSeq(l, n + 1, Len(l))
\* the places where "%}" starts in line
Closes(l) == {i \in 1..(Len(l) - 1) : l[i] = "%" /\ l[i + 1] = "}"}
\* line[: line.index("%}")]
BeforeClose(l) == SubSeq(l, 1, (CHOOSE i \in Closes(l) : \A j \in Closes(l) : i <= j) - 1)

\* number of blanks a line starts with
RECURSIVE Indent(_)
Indent(l) == IF l # <<>> /\ Head(l) = " " THEN 1 + Indent(Tail(l)) ELSE 0
Blank(l) == lstrip(l) = <<>>
\* the margin textwrap.dedent removes: the least indent of the lines that
\* are not blank
Margin(ls) ==
    IF \A i \in 1..Len(ls) : Blank(ls[i]) THEN 0
    ELSE CHOOSE m \in {Indent(ls[i]) : i \in {k \in 1..Len(ls) : ~Blank(ls[k])}} :
            \A i \in 1..Len(ls) : Blank(ls[i]) \/ m <= Indent(ls[i])
\* _dedent: textwrap.dedent on the joined lines, split again; blank lines
\* become empty and no lines give one empty line
dedent(ls) ==
    IF ls = <<>> THEN <<<<>>>>
    ELSE [i \in 1..Len(ls) |-> IF Blank(ls[i]) THEN <<>> ELSE From(ls[i], Margin(ls))]

\* docstring += _dedent(uncommented) if there is any
Flush(doc) ==
    IF doc.uncommented = <<>> THEN doc
    ELSE [doc EXCEPT !.docstring = @ \o dedent(doc.uncommented), !.uncommented = <<>>]

RECURSIVE DocLoop(_, _, _), BlockLoop(_, _, _, _, _)

\* docstring.append(comment_block[0]); docstring += _dedent(comment_block[1:])
\* and on to the line after the block
BlockEnd(text, i, doc, block) ==
    IF block = <<>> THEN [doc EXCEPT !.err = "IndexError"]
    ELSE DocLoop(text, i,
                 [doc EXCEPT !.docstring = Append(@, Head(block)) \o dedent(Tail(block))])

\* the else of the while: the text before "%}" closes the block, if any
BlockClose(text, i, doc, block, line) ==
    BlockEnd(text, i, doc,
             IF BeforeClose(line) # <<>> THEN Append(block, BeforeClose(line)) ELSE block)

\* while "%}" not in line: ... line = next(text), the lines taken as they
\* are; i is the next line of the iterator
BlockLoop(text, i, doc, block, line) ==
    IF Closes(line) # {} THEN BlockClose(text, i, doc, block, line)
    ELSE IF i > Len(text) THEN BlockEnd(text, i, doc, Append(block, line))
    ELSE BlockLoop(text, i + 1, doc, Append(block, line), text[i])

\* the body of the while True loop for the stripped line, i the next line
DocLine(text, i, doc, line) ==
    IF line \in Pragmas THEN DocLoop(text, i, doc)
    ELSE IF \E k \in 1..Len(line) : line[k] = SnippetMarker THEN DocLoop(text, i, doc)
    ELSE IF StartsWith(line, <<"%", "%">>)
    THEN DocLoop(text, i, [Flush(doc) EXCEPT !.docstring = Append(@, lstrip(From(line, 2)))])
    ELSE IF StartsWith(line, <<"%", "{">>)
    THEN BlockLoop(text, i, Flush(doc), <<>>, From(line, 2))
    ELSE IF line = <<>> THEN [doc EXCEPT !.err = "IndexError"]
    ELSE IF Head(line) = "%"
    THEN DocLoop(text, i, [doc EXCEPT !.uncommented = Append(@, From(line, 1))])
    ELSE [doc EXCEPT !.err = "LookupError"]

\* while True: line = next(text).lstrip() ..., from the i-th line; after
\* the last line what is left in uncommented is added
DocLoop(text, i, doc) ==
    IF i > Len(text) THEN Flush(doc)
    ELSE DocLine(text, i + 1, doc, lstrip(text[i]))

\* Docstring("\n".join(docstring)): its lines, or the exception raised
DocstringOf(doc) ==
    IF doc.err # "none" THEN [err |-> doc.err, lines |-> <<>>]
    ELSE [err |-> "none", lines |-> IF doc.docstring = <<>> THEN <<<<>>>> ELSE doc.docstring]

\* FileParser._comment_docstring on the lines of a comment block
comment_docstring(text) ==
    DocstringOf(DocLoop(text, 1, [docstring |-> <<>>, uncommented |-> <<>>, err |-> "none"]))

\* Number of lines in a comment block.
MaxLines == 4

CommentLines ==
    {<<"%", " ", "t">>, <<"%", " ", " ", "t">>, <<"%", "#codegen">>, <<" ", "%", "#ok">>,
     <<"%", " ", SnippetMarker, " ", "t">>, <<"%", "%", " ", "t">>, <<"%", "{">>, <<"%", "}">>,
     <<" ", "t">>}
CommentBlocks == UNION {[1..k -> CommentLines] : k \in 1..MaxLines}

\* self._comment_docstring(nodes) for the comment nodes of a header
ExtractDocstring ==
    /\ hist = <<>>
    /\ hist' = <<OpParse("comment_docstring")>>
    /\ output' = comment_docstring(input)
    /\ UNCHANGED <<path, mapping, okeys, objects, members, folders, heap, lines, err,
                   result, thrVars, input>>

DocstringInit ==
    /\ CollInit /\ ThrInit /\ ctorOutcome = "object"
    /\ input \in CommentBlocks
    /\ output = <<>>

DocstringSpec == DocstringInit /\ [][ExtractDocstring]_vars

\* C15: no line of an extracted docstring is a pragma line, and none
\* contains the snippet marker, wherever such lines stand in the comment
\* block.
PragmaAndMarkerSkipped ==
    (hist # <<>> /\ Last(hist).op = "comment_docstring" /\ output.err = "none") =>
        \A i \in 1..Len(output.lines) :
            /\ output.lines[i] \notin Pragmas
            /\ \A k \in 1..Len(output.lines[i]) : output.lines[i][k] # SnippetMarker

---------------------------------------------------------------------------
(* Properties of PathsCollection, stated on the state the calls in hist   *)
(* have left behind.  A lookup made "now" is GetItem applied to Cur.      *)

FileIn(root, n) == root \o <<File(n)>>
Added(i, root) ==
    hist[i].op = "addpath" /\ hist[i].root = root /\ hist[i].raised = "none"
Removed(i, root) ==
    hist[i].op = "rm_path" /\ hist[i].root = root /\ hist[i].raised = "none"
AllReturned == \A i \in 1..Len(hist) : hist[i].raised = "none"
Obtained(s) == s.err = "none" /\ s.ret # None
\* collection[id] returns the object that was parsed from file f
LooksUp(id, f) ==
    LET s == GetItem(Cur, id) IN Obtained(s) /\ s.heap[s.ret].filepath = f

\* C1: every root of the model holds a util.m.  After addpath(r1);
\* addpath(r2) that both returned, collection["util"] is the object of
\* r1/util.m; after a following rm_path(r1) that returned, it is the object
\* of r2/util.m.
ShadowingAndFallback ==
    \A r1 \in Roots : \A r2 \in Roots \ {r1} :
        /\ (Len(hist) = 2 /\ Added(1, r1) /\ Added(2, r2))
              => LooksUp(Id1("util"), FileIn(r1, "util"))
        /\ (Len(hist) = 3 /\ Added(1, r1) /\ Added(2, r2) /\ Removed(3, r1))
              => LooksUp(Id1("util"), FileIn(r2, "util"))

\* C2: when the last call was an addpath that returned, making the same
\* call again leaves the identifier map as it is.
AddPathIdempotent ==
    (hist # <<>> /\ Last(hist).op = "addpath" /\ Last(hist).raised = "none")
        => AddPath(Cur, Last(hist).root, Last(hist).to_end, Last(hist).recursive).mapping
              = mapping

\* C3: for a root that is not on the path, addpath followed by rm_path
\* gives back the root list, the identifier map (keys included), the alias
\* table and the per-root member lists.
AddRemoveRoundTrip ==
    \A root \in Roots \ SeqRange(path) : \A to_end \in BOOLEAN :
        \A recursive \in RecursiveFlags(root) :
            LET s == RmPath(AddPath(Cur, root, to_end, recursive), root, FALSE)
            IN  /\ s.path = path
                /\ s.mapping = mapping
                /\ s.objects = objects
                /\ s.members = members

\* no file or folder of the file system carries the identifier's last name
NeverDefined(id) ==
    \A d \in DOMAIN Tree : \A i \in 1..Len(Tree[d]) :
        Tree[d][i].segs # <<Last(id.segs)>>

\* C4: after addpath and rm_path calls that all returned, an identifier
\* that was never defined, or any identifier once every root has been
\* removed, is looked up as None without an exception, and is not "in" the
\* collection.
NotFoundLookup ==
    \A id \in LookupIds :
        (AllReturned /\ (NeverDefined(id) \/ path = <<>>))
            => LET s == GetItem(Cur, id)
                   c == Contains(Cur, id)
               IN  /\ s.err = "none" /\ s.ret = None
                   /\ c.err = "none" /\ c.ret = FALSE

\* C6: when addpath has returned, every alias it registered is unresolved.
LazyMaterialization ==
    (hist # <<>> /\ Last(hist).op = "addpath" /\ Last(hist).raised = "none")
        => \A p \in SeqRange(Glob(Last(hist).root, Last(hist).recursive)) :
              p \in DOMAIN objects /\ objects[p].target = None

\* C7: when a call has raised the parser's error, the alias of the file
\* that does not parse is still registered and unresolved, and every other
\* file found directly in a root of the path is registered and is a
\* candidate of an identifier.
ErrorContainment ==
    (hist # <<>> /\ Last(hist).raised = "SyntaxError")
        => /\ BadFile \in DOMAIN objects
           /\ objects[BadFile].target = None
           /\ \A i \in 1..Len(path) :
                \A p \in SeqRange(Glob(path[i], FALSE)) \ {BadFile} :
                    /\ p \in DOMAIN objects
                    /\ \E id \in DOMAIN mapping : p \in SeqRange(mapping[id])

\* the dotted name of a namespace folder: the names of the chain of
\* namespace folders that ends in it, without their "+"
RECURSIVE NsDotted(_)
NsDotted(dir) ==
    IF dir = <<>> \/ Last(dir).pre # NAMESPACE_PREFIX THEN <<>>
    ELSE NsDotted(Parent(dir)) \o Last(dir).segs

\* no call so far has raised the parser's error
NoParseError == \A i \in 1..Len(hist) : hist[i].raised # "SyntaxError"

\* C8: with root A on the path and no parse error raised so far,
\* collection["+pkg"].members["bar"] and collection["pkg.bar"] are both
\* obtained and are the same object, in either order of the two lookups.
NamespaceAccessConsistent ==
    (RootA \in SeqRange(path) /\ NoParseError) =>
        /\ LET ns == GetItem(Cur, NsId("pkg"))
               bar == GetItem(Return(ns, None), Id2("pkg", "bar"))
           IN  /\ Obtained(ns)
               /\ Id1("bar") \in DOMAIN ns.heap[ns.ret].members
               /\ Obtained(bar)
               /\ bar.ret = ns.heap[ns.ret].members[Id1("bar")]
        /\ LET bar == GetItem(Cur, Id2("pkg", "bar"))
               ns == GetItem(Return(bar, None), NsId("pkg"))
           IN  /\ Obtained(bar)
               /\ Obtained(ns)
               /\ Id1("bar") \in DOMAIN ns.heap[ns.ret].members
               /\ bar.ret = ns.heap[ns.ret].members[Id1("bar")]

\* o was built for a file or folder that lies in a namespace folder
UnderNamespace(h, o) ==
    Len(h[o].filepath) > 1 /\ Last(Parent(h[o].filepath)).pre = NAMESPACE_PREFIX

\* C9: whatever identifier is looked up, an object returned for a file or
\* folder in a namespace folder has as canonical path the dotted name of
\* that namespace folder, ".", and its own name; and so has every member
\* of a namespace that is returned.
NamespacePrefix ==
    \A id \in LookupIds \cup DOMAIN mapping :
        LET s == GetItem(Cur, id)
        IN  Obtained(s) =>
                /\ UnderNamespace(s.heap, s.ret) =>
                      CanonicalPath(s.heap, s.ret)
                          = Str("", NsDotted(Parent(s.heap[s.ret].filepath))
                                        \o s.heap[s.ret].name.segs)
                /\ s.heap[s.ret].kind = "namespace" =>
                      \A n \in DOMAIN s.heap[s.ret].members :
                          LET m == s.heap[s.ret].members[n]
                          IN CanonicalPath(s.heap, m)
                                = Str("", NsDotted(s.heap[s.ret].filepath)
                                              \o s.heap[m].name.segs)

\* the files of class folder @C other than C.m
ExtraFiles == {c \in SeqRange(Tree[ClsA]) : c # File("C")}

\* C10: with root A on the path, collection["C"] is a class, and for every
\* extra file f.m of @C its member "f" is a function whose parent is that
\* class and which is the object collection["C.f"] returns.
ClassFolderAssembly ==
    RootA \in SeqRange(path) =>
        LET cls == GetItem(Cur, Id1("C"))
        IN  /\ Obtained(cls)
            /\ cls.heap[cls.ret].kind = "class"
            /\ \A c \in ExtraFiles :
                /\ Stem(c) \in DOMAIN cls.heap[cls.ret].members
                /\ LET f == cls.heap[cls.ret].members[Stem(c)]
                       s == GetItem(Return(cls, None), Dot(Id1("C"), Stem(c)))
                   IN  /\ cls.heap[f].kind = "function"
                       /\ cls.heap[f].parent = cls.ret
                       /\ Obtained(s)
                       /\ s.ret = f

---------------------------------------------------------------------------
(* Properties of Class.mro, stated on the answer of the last call.  The   *)
(* hierarchy is read off input, the linearization is computed on names.   *)

FileOf(id) == RootM \o <<Comp("", id.segs, MFILE_SUFFIX)>>
\* the superclasses id names that are classes of the collection
Supers(id) == SelectSeq(input[FileOf(id)].bases, LAMBDA b : b \in ClassIds)

RECURSIVE Ancestors(_, _)
\* the classes reached from id in at most n steps along Supers
Ancestors(id, n) ==
    IF n = 0 THEN {}
    ELSE SeqRange(Supers(id)) \cup
         UNION {Ancestors(b, n - 1) : b \in SeqRange(Supers(id))}
AllAncestors(id) == Ancestors(id, Cardinality(ClassIds))
Acyclic(id) == \A c \in {id} \cup AllAncestors(id) : c \notin AllAncestors(c)

NoFit == [ok |-> FALSE, list |-> <<>>]
RECURSIVE C3Merge(_, _), C3(_)
\* the merge of C3: repeatedly take the head of the first list whose head
\* is in the tail of no list, and drop it from the lists that it heads
C3Merge(ls, out) ==
    LET live == SelectSeq(ls, LAMBDA l : l # <<>>)
        cand == {i \in 1..Len(live) :
                    \A j \in 1..Len(live) : Head(live[i]) \notin SeqRange(Tail(live[j]))}
    IN  IF live = <<>> THEN [ok |-> TRUE, list |-> out]
        ELSE IF cand = {} THEN NoFit
        ELSE LET h == Head(live[CHOOSE i \in cand : \A j \in cand : i <= j])
             IN C3Merge([i \in 1..Len(live) |->
                            IF Head(live[i]) = h THEN Tail(live[i]) ELSE live[i]],
                        Append(out, h))
\* L(c) = c + merge(L(b1), ..., L(bn), [b1, ..., bn]) of an acyclic class
C3(id) ==
    LET sup == Supers(id)
        lins == [i \in 1..Len(sup) |-> C3(sup[i])]
    IN  IF \E i \in 1..Len(sup) : ~lins[i].ok THEN NoFit
        ELSE LET m == C3Merge([i \in 1..Len(sup) |-> lins[i].list] \o <<sup>>, <<>>)
             IN IF m.ok THEN [ok |-> TRUE, list |-> <<id>> \o m.list] ELSE NoFit

NoDuplicates(l) == \A i \in 1..Len(l) : \A j \in 1..Len(l) : l[i] = l[j] => i = j
NamesOf(l) == [i \in 1..Len(l) |-> heap[l[i]].name]
CalledMro == hist # <<>> /\ Last(hist).op = "mro"
Diamond ==
    /\ input[FileOf(Id1("C"))].bases = <<Id1("A"), Id1("B")>>
    /\ input[FileOf(Id1("A"))].bases = <<Id1("H")>>
    /\ input[FileOf(Id1("B"))].bases = <<Id1("H")>>
    /\ input[FileOf(Id1("H"))].bases = <<>>

\* C11: when mro() was called on a class of an acyclic hierarchy that has a
\* C3 linearization, it returned that linearization without the class
\* itself, each entry being the class object the collection holds under
\* that name, and no class twice; when the hierarchy has none, it raised;
\* and for C < A & B, A < H, B < H, C.mro() is [A, B, H].
MroIsC3Linearization ==
    (CalledMro /\ Acyclic(Last(hist).id)) =>
        /\ IF C3(Last(hist).id).ok
           THEN /\ output.err = "none"
                /\ NamesOf(output.ret) = Tail(C3(Last(hist).id).list)
                /\ NoDuplicates(output.ret)
                /\ \A i \in 1..Len(output.ret) :
                      output.ret[i] = GetItem(Cur, heap[output.ret[i]].name).ret
           ELSE output.err = "ValueError"
        /\ (Diamond /\ Last(hist).id = Id1("C"))
              => /\ output.err = "none"
                 /\ NamesOf(output.ret) = <<Id1("A"), Id1("B"), Id1("H")>>

\* C < A & B with A < H and B < H: C.mro() has returned.
DiamondLinearized ==
    /\ CalledMro
    /\ Last(hist).id = Id1("C")
    /\ Diamond
    /\ output.err = "none"
    /\ Len(output.ret) = 3

\* C12: addpath of a root of classes returns, whatever they extend; and
\* when mro() was called on a class from which a cycle is reached, it raised
\* the error, naming a chain that starts at the class, follows superclass
\* names step by step, and ends in the first class that is on it already.
CycleDetected ==
    /\ (hist # <<>> /\ hist[1].op = "addpath") => hist[1].raised = "none"
    /\ (CalledMro /\ ~Acyclic(Last(hist).id)) =>
          /\ output.err = "ValueError"
          /\ Len(output.ret) >= 2
          /\ output.ret[1] = Last(hist).id
          /\ \A i \in 1..(Len(output.ret) - 1) :
                output.ret[i + 1] \in SeqRange(Supers(output.ret[i]))
          /\ NoDuplicates(Front(output.ret))
          /\ Last(output.ret) \in SeqRange(Front(output.ret))

\* C < A and A < C: C.mro() has raised, naming C -> A -> C.
CycleNamed ==
    /\ CalledMro
    /\ Last(hist).id = Id1("C")
    /\ input[FileOf(Id1("C"))].bases = <<Id1("A")>>
    /\ input[FileOf(Id1("A"))].bases = <<Id1("C")>>
    /\ output.err = "ValueError"
    /\ output.ret = <<Id1("C"), Id1("A"), Id1("C")>>

---------------------------------------------------------------------------
(* More properties of PathsCollection, on the state the calls in hist     *)
(* have left behind.                                                      *)

\* the root a path lies under
RootOf(p) == SubSeq(p, 1, 1)
\* p was emitted by the globber in an addpath of its root, and the root
\* was not removed since
Discovered(p) ==
    \E i \in 1..Len(hist) :
        /\ hist[i].op = "addpath" /\ hist[i].root = RootOf(p)
        /\ p \in SeqRange(Glob(hist[i].root, hist[i].recursive))
        /\ \A j \in (i + 1)..Len(hist) :
              ~(hist[j].op = "rm_path" /\ hist[j].root = RootOf(p))
\* the .m files the globber can emit
AllFiles == {p \in UNION {SeqRange(Glob(r, TRUE)) : r \in Roots} : IsFile(p)}
\* the identifiers p is a candidate of
RegisteredIds(p) == {id \in DOMAIN mapping : p \in SeqRange(mapping[id])}

\* C16: every .m file discovered under a root that was added has an
\* identifier, and when no file of another root is a candidate of that
\* identifier, collection[id] is the object of that file.
IdentifierRoundTrip ==
    \A p \in AllFiles :
        Discovered(p) =>
            /\ RegisteredIds(p) # {}
            /\ \A id \in RegisteredIds(p) :
                  (\A q \in SeqRange(mapping[id]) : RootOf(q) = RootOf(p))
                      => LooksUp(id, p)

---------------------------------------------------------------------------
(* _PathGlobber on its own: the walk of a root directory whose content    *)
(* is drawn from a fixed set of files and directories.                    *)

RootG == <<Dir("G")>>
Txt(n) == Comp("", <<n>>, ".txt")
\* a directory whose name ends in ".m", and one whose stem is "private"
DirM == Comp("", <<"d">>, MFILE_SUFFIX)
PrivateD == Comp("", <<"private">>, ".d")

\* every directory that can be there, with what it can hold
Universe ==
    (RootG :> <<File("f"), CONTENTS_FILE, Txt("n"), Dir("sub"), Dir("private"), NsDir("pkg"),
                ClsDir("C"), DirM, PrivateD>>) @@
    (RootG \o <<Dir("sub")>> :> <<File("g"), NsDir("in"), Dir("private"), Dir("low")>>) @@
    (RootG \o <<Dir("sub"), NsDir("in")>> :> <<File("h")>>) @@
    (RootG \o <<Dir("sub"), Dir("private")>> :> <<File("q")>>) @@
    (RootG \o <<Dir("sub"), Dir("low")>> :> <<File("l")>>) @@
    (RootG \o <<Dir("private")>> :> <<File("p"), NsDir("hid")>>) @@
    (RootG \o <<Dir("private"), NsDir("hid")>> :> <<File("y")>>) @@
    (RootG \o <<NsDir("pkg")>> :> <<File("b"), Dir("inner"), NsDir("deep"), CONTENTS_FILE>>) @@
    (RootG \o <<NsDir("pkg"), Dir("inner")>> :> <<File("i")>>) @@
    (RootG \o <<NsDir("pkg"), NsDir("deep")>> :> <<File("x")>>) @@
    (RootG \o <<ClsDir("C")>> :> <<File("C"), Txt("n")>>) @@
    (RootG \o <<DirM>> :> <<File("m")>>) @@
    (RootG \o <<PrivateD>> :> <<File("r")>>)

\* Number of files and directories of Universe that are left out.
MaxAbsent == 2

Entries == UNION {{d \o <<c>> : c \in SeqRange(Universe[d])} : d \in DOMAIN Universe}
IsBelow(p, q) == Len(q) <= Len(p) /\ SubSeq(p, 1, Len(q)) = q
\* the directory tree that is left when the entries in absent, and what
\* lies below them, are taken away
TreeWithout(absent) ==
    [d \in {x \in DOMAIN Universe : \A q \in absent : ~IsBelow(x, q)} |->
        SelectSeq(Universe[d], LAMBDA c : d \o <<c>> \notin absent)]
RECURSIVE AbsentSets(_)
\* the sets of at most n entries
AbsentSets(n) ==
    IF n = 0 THEN {{}}
    ELSE AbsentSets(n - 1) \cup {a \cup {e} : a \in AbsentSets(n - 1), e \in Entries}
GlobInputs ==
    {[tree |-> TreeWithout(absent), recursive |-> r] :
        absent \in AbsentSets(MaxAbsent), r \in BOOLEAN}

\* _PathGlobber(path, recursive) on the root
WalkRoot ==
    /\ hist = <<>>
    /\ hist' = <<OpParse("glob")>>
    /\ output' = GlobWalk(input.tree, RootG, 1, input.recursive)
    /\ UNCHANGED <<path, mapping, okeys, objects, members, folders, heap, lines, err,
                   result, thrVars, input>>

GlobInit ==
    /\ CollInit /\ ThrInit /\ ctorOutcome = "object"
    /\ input \in GlobInputs
    /\ output = <<>>

GlobSpec == GlobInit /\ [][WalkRoot]_vars

Walked == hist # <<>> /\ Last(hist).op = "glob"
\* the directories _glob was called on, and the paths it appended
Entered == {RootG} \cup {output[i].path : i \in {k \in 1..Len(output) : output[k].ev = "glob"}}
Emitted == SeqRange(Paths(output))
\* the name of a path's last component is "private"
NamedPrivate(p) == Last(p) = Dir("private")
Prefixed(p) == Last(p).pre \in FOLDER_PREFIXES
\* the members of the directories that were entered
Met == UNION {{d \o <<c>> : c \in SeqRange(input.tree[d])} : d \in Entered}

\* C17: of what the walk of a root meets, a regular subdirectory is entered
\* only if recursion was requested, its name does not start with "+" or "@"
\* and it is not named private, and its path is never emitted; a
\* subdirectory whose name starts with "+" or "@" is emitted and entered
\* whatever the recursion flag; a file is emitted if and only if its suffix
\* is ".m" and its name is not Contents.m.
GlobberVisibility ==
    Walked =>
        /\ Entered \subseteq DOMAIN input.tree
        /\ Emitted \subseteq Met
        /\ \A p \in Met :
            /\ (IsDirIn(input.tree, p) /\ ~Prefixed(p)) =>
                  /\ p \in Entered => (input.recursive /\ ~NamedPrivate(p))
                  /\ p \notin Emitted
            /\ (IsDirIn(input.tree, p) /\ Prefixed(p)) => (p \in Emitted /\ p \in Entered)
            /\ ~IsDirIn(input.tree, p) =>
                  (p \in Emitted <=> (Last(p).suf = MFILE_SUFFIX /\ Last(p) # CONTENTS_FILE))

\* a recursive walk that entered sub and, inside a namespace folder, left a
\* plain directory alone; that met private and did not enter it; that
\* emitted a class folder's file and skipped a Contents.m
RecursiveWalk ==
    /\ Walked /\ input.recursive
    /\ RootG \o <<Dir("sub")>> \in Entered
    /\ RootG \o <<Dir("sub"), File("g")>> \in Emitted
    /\ RootG \o <<Dir("private")>> \in Met \ Entered
    /\ RootG \o <<NsDir("pkg")>> \in Emitted \cap Entered
    /\ RootG \o <<NsDir("pkg"), Dir("inner")>> \in Met \ Entered
    /\ RootG \o <<ClsDir("C"), File("C")>> \in Emitted
    /\ RootG \o <<CONTENTS_FILE>> \in Met \ Emitted

\* Number of calls in the runs in which the objects built are examined.
MaxCalls == 3

\* the calls of Spec, in runs of at most MaxCalls calls
BuildAddPath ==
    /\ Len(hist) < MaxCalls
    /\ \E root \in Roots, to_end \in BOOLEAN :
          \E recursive \in RecursiveFlags(root) :
              Becomes(AddPath(Cur, root, to_end, recursive), OpAdd(root, to_end, recursive))

BuildRmPath ==
    /\ Len(hist) < MaxCalls
    /\ \E root \in Roots :
          \E recursive \in RecursiveFlags(root) :
              Becomes(Return(RmPath(Cur, root, recursive), None), OpRm(root, recursive))

BuildGetItem ==
    /\ Len(hist) < MaxCalls
    /\ \/ \E id \in LookupIds : Becomes(GetItem(Cur, id), OpGet(id))
       \/ \E p \in LookupPaths : Becomes(GetItemPath(Cur, p), OpGetPath(p))

BuildNext == BuildAddPath \/ BuildRmPath \/ BuildGetItem

BuildSpec == Init /\ [][BuildNext]_vars

\* the objects that own members
Owners == {o \in 1..Len(heap) : heap[o].kind \in {"folder", "namespace", "class"}}
\* every member of o has o as parent
OwnsMembers(o) == \A n \in DOMAIN heap[o].members : heap[heap[o].members[n]].parent = o

---------------------------------------------------------------------------
(* Alias.target and Alias.target_path of one alias of a file, built from  *)
(* an object or from the resolver of the file.                            *)

\* self._target = value; self.target_path = value.path
AssignTarget(s, p, value) ==
    [s EXCEPT !.objects[p].target = value,
              !.objects[p].target_path = ObjPath(s.heap, value)]

\* raise CyclicAliasError([self.target_path]): an attribute that was never
\* assigned is looked up on the target by __getattr__, which has none
RaiseCyclic(s, p) ==
    IF s.objects[p].target_path = Undefined THEN Raise(s, "AttributeError")
    ELSE Raise(s, "CyclicAliasError")

\* the target setter once self.path was read: Alias has no path of its
\* own, the read went through __getattr__ to the target, now in s.ret
SetTargetTo(s, p, value) ==
    IF s.err # "none" THEN s
    ELSE IF ObjPath(s.heap, value) = ObjPath(s.heap, s.ret) THEN RaiseCyclic(s, p)
    ELSE Return(AssignTarget(s, p, value), None)

\* Alias.target = value, for a value that is an object
SetTarget(st, p, value) == SetTargetTo(Actual(st, "objects", p), p, value)

\* the file the alias stands for
AliasFile == RootD \o <<File("ok")>>
\* objects that exist beside the alias: one with the path of the file's
\* object, one in a namespace, one with another name
Others ==
    <<NewObject("function", Id1("ok"), <<>>, <<>>),
      NewObject("namespace", Id1("pkg"), <<>>, <<>>),
      [NewObject("function", Id1("g"), <<>>, <<>>) EXCEPT !.parent = 2],
      NewObject("function", Id1("h"), <<>>, <<>>)>>

OpTarget == OpParse("target")
OpSetTarget(value) == [OpParse("target=") EXCEPT !.id = ObjPath(heap, value)]

\* alias.target
GetTarget ==
    /\ Len(hist) < MaxOps
    /\ Becomes(Actual(Cur, "objects", AliasFile), OpTarget)

\* alias.target = value
AssignsTarget ==
    /\ Len(hist) < MaxOps
    /\ \E value \in 1..Len(heap) :
          Becomes(SetTarget(Cur, AliasFile, value), OpSetTarget(value))

\* Alias(name, target) with target an object or the resolver of the file
TargetInit ==
    /\ path = <<>> /\ mapping = <<>> /\ members = <<>> /\ folders = <<>>
    /\ lines = {} /\ err = "none" /\ result = None /\ hist = <<>>
    /\ heap = Others
    /\ okeys = <<AliasFile>>
    /\ \E a \in {NewAlias(Id1("ok"))} \cup {AliasTo(Others, Id1("ok"), o) : o \in 1..Len(Others)} :
          objects = (AliasFile :> a)
    /\ ThrInit /\ ctorOutcome = "object" /\ FunInit

TargetNext == GetTarget \/ AssignsTarget

TargetSpec == TargetInit /\ [][TargetNext]_vars

\* C19: whenever an alias is resolved, its target_path is defined and is
\* the path of its target, whether the target was given at construction,
\* assigned through the setter or built by the constructor on first access.
TargetPathOfResolved ==
    \A p \in DOMAIN objects :
        objects[p].target # None =>
            /\ objects[p].target_path # Undefined
            /\ objects[p].target_path = ObjPath(heap, objects[p].target)

---------------------------------------------------------------------------
(* The side of the search path a root is added at.                        *)

\* the last call was an addpath that returned
JustAdded == hist # <<>> /\ Last(hist).op = "addpath" /\ Last(hist).raised = "none"
\* the candidate of id that a lookup takes, and the one it takes last
FrontCandidate(id) == Head(mapping[id])
BackCandidate(id) == Last(mapping[id])

\* C20: after addpath(root, to_end=false) root is the first root of the
\* path and, for every identifier of a member of root, the front candidate
\* is a member of root; after addpath(root, to_end=true) root is the last
\* root and the last candidate is a member of root.
InsertionSideDecidesShadowing ==
    JustAdded =>
        /\ IF Last(hist).to_end THEN Last(path) = Last(hist).root
           ELSE Head(path) = Last(hist).root
        /\ \A p \in SeqRange(Glob(Last(hist).root, Last(hist).recursive)) :
            /\ RegisteredIds(p) # {}
            /\ \A id \in RegisteredIds(p) :
                  IF Last(hist).to_end THEN RootOf(BackCandidate(id)) = Last(hist).root
                  ELSE RootOf(FrontCandidate(id)) = Last(hist).root

---------------------------------------------------------------------------
(* What rm_path takes away and what it leaves.                            *)

\* root was on the path when the last call was made
OnPathBefore(root) ==
    \E i \in 1..(Len(hist) - 1) :
        /\ hist[i].op = "addpath" /\ hist[i].root = root
        /\ \A j \in (i + 1)..(Len(hist) - 1) :
              ~(hist[j].op = "rm_path" /\ hist[j].root = root)
\* the last call was rm_path of a root that was on the path
JustRemoved ==
    hist # <<>> /\ Last(hist).op = "rm_path" /\ OnPathBefore(Last(hist).root)
\* the paths that are candidates of some identifier
Candidates == UNION {SeqRange(mapping[id]) : id \in DOMAIN mapping}

\* C21: rm_path of a root that is on the path returns without raising, and
\* afterwards the root is not on the path, no candidate of any identifier
\* lies under the root and no alias is kept for a path under the root.
RmPathRemovesRoot ==
    JustRemoved =>
        /\ Last(hist).raised = "none"
        /\ Last(hist).root \notin SeqRange(path)
        /\ \A p \in Candidates : RootOf(p) # Last(hist).root
        /\ \A p \in DOMAIN objects : RootOf(p) # Last(hist).root

\* the calls before the last one were addpath calls that returned
AddPathsBefore ==
    \A i \in 1..(Len(hist) - 1) : hist[i].op = "addpath" /\ hist[i].raised = "none"
\* all calls so far were addpath calls that returned
OnlyAddPaths == AddPathsBefore /\ (hist # <<>> => Last(hist).op = "addpath") /\ AllReturned
\* what the globber emitted for root in the addpath calls made for it
FoundUnder(root) ==
    UNION {SeqRange(Glob(root, hist[i].recursive)) :
              i \in {k \in 1..Len(hist) : hist[k].op = "addpath" /\ hist[k].root = root}}
\* the paths listed for root in _members
ListedUnder(root) == {members[root][i][2] : i \in 1..Len(members[root])}

\* C22: after addpath calls only, the list kept for a root holds exactly
\* the paths discovered under that root, each with an identifier it is a
\* candidate of; and after a following rm_path of a root that returned,
\* every path discovered under another root is still a candidate and still
\* has its alias.
MembersPerRoot ==
    /\ OnlyAddPaths =>
          \A root \in DOMAIN members :
              /\ ListedUnder(root) = FoundUnder(root)
              /\ \A i \in 1..Len(members[root]) :
                    /\ members[root][i][1] \in DOMAIN mapping
                    /\ members[root][i][2] \in SeqRange(mapping[members[root][i][1]])
    /\ (JustRemoved /\ AddPathsBefore /\ Last(hist).raised = "none") =>
          \A root \in SeqRange(path) :
              \A p \in FoundUnder(root) : p \in DOMAIN objects /\ p \in Candidates

---------------------------------------------------------------------------
(* The class folder @K of root W.  input gives the content of its files:  *)
(* the body of K.m, the signature of resize.m, and get.value.m, which     *)
(* implements function v = get.value(obj).  The root is added and the     *)
(* identifiers of the folder are looked up.                               *)

KFile == ClsW \o <<File(CLASS_NAME)>>
WidgetDecls ==
    {Decl("property", "none", "value"), Decl("method", "none", "scale"),
     Decl("method", "set", "value")}
\* the bodies of K.m: declarations of WidgetDecls, none of them twice
WidgetBodies ==
    {b \in UNION {[1..k -> WidgetDecls] : k \in 0..Cardinality(WidgetDecls)} :
        \A i \in 1..Len(b) : \A j \in 1..Len(b) : i # j => b[i] # b[j]}
ResizeInputs == {<<"obj">>, <<"obj", "n">>, <<"obj", "n", "m">>}
WidgetContents ==
    {(KFile :> [bases |-> <<>>, body |-> b]) @@
     (ResizeFile :> [inputs |-> r, acc |-> "none"]) @@
     (GetValueFile :> [inputs |-> <<"obj">>, acc |-> "get"]) :
        b \in WidgetBodies, r \in ResizeInputs}

WidgetIds == {Id1(CLASS_NAME), Id2(CLASS_NAME, "resize"), Id2(CLASS_NAME, "value")}

\* collection.addpath(W)
WidgetAddPath ==
    /\ hist = <<>>
    /\ \E to_end \in BOOLEAN :
          Becomes(AddPath(Cur, RootW, to_end, FALSE), OpAdd(RootW, to_end, FALSE))

\* collection[id]
WidgetGetItem ==
    /\ Len(hist) \in 1..2
    /\ \E id \in WidgetIds : Becomes(GetItem(Cur, id), OpGet(id))

WidgetInit ==
    /\ CollInit /\ ThrInit /\ ctorOutcome = "object"
    /\ input \in WidgetContents
    /\ output = <<>>

WidgetNext == WidgetAddPath \/ WidgetGetItem

WidgetSpec == WidgetInit /\ [][WidgetNext]_vars

\* collection["K"] has just returned the class of the folder
Materialized ==
    /\ hist # <<>>
    /\ Last(hist) = OpGet(Id1(CLASS_NAME))
    /\ result # None
    /\ heap[result].kind = "class"
\* the member of the materialized class called n
WidgetMember(n) == heap[heap[result].members[Id1(n)]]

\* C23: once collection["K"] is materialized, members["resize"] is the
\* function of resize.m with the inputs of its signature less the first
\* (the instance), and every plain method the classdef declares has its
\* declared inputs less the first as well.
SelfStrippedInClassFolder ==
    Materialized =>
        /\ Id1("resize") \in DOMAIN heap[result].members
        /\ WidgetMember("resize").filepath = ResizeFile
        /\ WidgetMember("resize").arguments = Tail(input[ResizeFile].inputs)
        /\ \A i \in 1..Len(input[KFile].body) :
              LET decl == input[KFile].body[i]
              IN  (decl.kind = "method" /\ decl.acc = "none") =>
                      /\ Id1(decl.name) \in DOMAIN heap[result].members
                      /\ WidgetMember(decl.name).arguments = Tail(MethodInputs(decl))

\* the classdef of K.m declares the property value
DeclaresValue ==
    \E i \in 1..Len(input[KFile].body) :
        input[KFile].body[i] = Decl("property", "none", "value")

\* C24: once collection["K"] is materialized and the classdef declares the
\* property value, members["value"] is that property, its getter is the
\* function of get.value.m, and no entry of members is that function.
AccessorFileBound ==
    (Materialized /\ DeclaresValue) =>
        /\ Id1("value") \in DOMAIN heap[result].members
        /\ WidgetMember("value").kind = "property"
        /\ WidgetMember("value").getter # None
        /\ heap[WidgetMember("value").getter].filepath = GetValueFile
        /\ \A n \in DOMAIN heap[result].members :
              heap[heap[result].members[n]].filepath # GetValueFile

---------------------------------------------------------------------------
(* Class.resolved_bases next to mro(), on the hierarchies of root M.      *)

OpBases(id) ==
    [op |-> "resolved_bases", root |-> <<>>, to_end |-> FALSE, recursive |-> FALSE,
     id |-> id, raised |-> "none"]

\* s is the state collection[id] left: resolved_bases of the class it returned
BasesCall(s, id) ==
    /\ s.err = "none"
    /\ IsClass(s.heap, s.ret)
    /\ Answers(resolved_bases(s, s.ret), OpBases(id))

\* collection[id].resolved_bases
CallResolvedBases ==
    /\ Len(hist) = 1
    /\ \E id \in ClassIds : BasesCall(GetItem(Cur, id), id)

BasesNext == MroAddPath \/ CallMro \/ CallResolvedBases

BasesSpec == MroInit /\ [][BasesNext]_vars

\* the class object the last call was made on
CalledClass ==
    CHOOSE o \in 1..Len(heap) : heap[o].kind = "class" /\ heap[o].name = Last(hist).id
ReadBases == Len(hist) = 2 /\ Last(hist).op = "resolved_bases"
ReadMro == Len(hist) = 2 /\ Last(hist).op = "mro"

\* C25: resolved_bases raises nothing and is the list of the class objects
\* named by the names of bases that resolve, in bases order, with no element
\* for a name that does not resolve; mro() holds class objects only; and
\* bases still holds every name, resolved or not.
UnresolvableBasesDropped ==
    /\ ReadBases =>
          /\ Last(hist).raised = "none"
          /\ Len(output.ret) = Len(Supers(Last(hist).id))
          /\ \A i \in 1..Len(output.ret) :
                /\ output.ret[i] # None
                /\ heap[output.ret[i]].kind = "class"
                /\ heap[output.ret[i]].name = Supers(Last(hist).id)[i]
          /\ heap[CalledClass].bases = input[FileOf(Last(hist).id)].bases
    /\ (ReadMro /\ Last(hist).raised = "none") =>
          /\ \A i \in 1..Len(output.ret) : IsClass(heap, output.ret[i])
          /\ heap[CalledClass].bases = input[FileOf(Last(hist).id)].bases

---------------------------------------------------------------------------
(* Class.inherited_members.  A member value is a reference to an object   *)
(* of the heap or an Alias built around another member value; the classes *)
(* of root M declare properties in their bodies.                          *)

Ref(o) == [alias |-> FALSE, id |-> o]
\* Alias(name, target=member, parent=c, inherited=True)
InheritedAlias(name, member, c) ==
    [alias |-> TRUE, name |-> name, target |-> member, _parent |-> c, inherited |-> TRUE]

RECURSIVE Unwrapped(_)
\* Alias._actual of a resolved alias: the object at the end of the chain
Unwrapped(v) == IF v.alias THEN Unwrapped(v.target) ELSE v.id

\* v.parent: Alias has no attribute parent, so __getattr__ hands the
\* request to the target; an object answers with its own parent
ParentOf(h, v) == h[Unwrapped(v)].parent

\* {**a, **b}
Overlay(a, b) == [n \in DOMAIN a \cup DOMAIN b |-> IF n \in DOMAIN b THEN b[n] ELSE a[n]]

\* c.members as member values
DeclaredMembers(h, c) == [n \in DOMAIN h[c].members |-> Ref(h[c].members[n])]

\* the inner for loop of inherited_members over the members of one model
InheritFrom(h, c, all, acc) ==
    Overlay(acc, [n \in DOMAIN all \ DOMAIN h[c].members |-> InheritedAlias(n, all[n], c)])

Reversed(q) == [i \in 1..Len(q) |-> q[Len(q) + 1 - i]]

RECURSIVE InheritedOf(_, _), InheritLoop(_, _, _, _, _)
\* ObjectAliasMixin.all_members of a class
all_members(s, c) == Overlay(InheritedOf(s, c), DeclaredMembers(s.heap, c))
\* for model in reversed(self.mro()), from the i-th model on
InheritLoop(s, c, models, i, acc) ==
    IF i > Len(models) THEN acc
    ELSE InheritLoop(s, c, models, i + 1,
                     InheritFrom(s.heap, c, all_members(s, models[i]), acc))
\* inherited_members of a class whose bases are loaded and whose mro() returns
InheritedOf(s, c) == InheritLoop(s, c, Reversed(MroOf(s, c).ret), 1, <<>>)

\* the loop of inherited_members once mro() has returned or raised in s
InheritBody(s, c) ==
    IF s.err # "none" THEN s ELSE Return(s, InheritedOf(s, c))
\* Class.inherited_members
inherited_members(st, c) == InheritBody(MroOf(st, c), c)

OpInherited(id) ==
    [op |-> "inherited_members", root |-> <<>>, to_end |-> FALSE, recursive |-> FALSE,
     id |-> id, raised |-> "none"]

\* s is the state collection[id] left: inherited_members of the class it returned
InheritedCall(s, id) ==
    /\ s.err = "none"
    /\ IsClass(s.heap, s.ret)
    /\ Answers(inherited_members(s, s.ret), OpInherited(id))

\* collection[id].inherited_members
CallInherited ==
    /\ Len(hist) = 1
    /\ \E id \in ClassIds : InheritedCall(GetItem(Cur, id), id)

\* the properties a class body declares, in a fixed order
PropertyBodies ==
    {<<>>, <<Decl("property", "none", "P")>>, <<Decl("property", "none", "Q")>>,
     <<Decl("property", "none", "P"), Decl("property", "none", "Q")>>}
\* C extends A and B, A alone, A and a name that is no class, or nothing;
\* A and B extend H or nothing
TopBases ==
    {<<>>, <<Id1("A")>>, <<Id1("A"), Id1("B")>>, <<Id1("B"), Id1("A")>>,
     <<Id1("A"), Id1("Z")>>}
InheritInputs ==
    {[p \in ClassFiles |->
        [bases |-> IF p = TopFile THEN c
                   ELSE IF p = RootM \o <<File("A")>> THEN a
                   ELSE IF p = RootM \o <<File("B")>> THEN b
                   ELSE <<>>,
         body |-> f[p]]] :
        c \in TopBases, a \in {<<>>, <<Id1("H")>>}, b \in {<<>>, <<Id1("H")>>},
        f \in [ClassFiles -> PropertyBodies]}

InheritInit ==
    /\ CollInit /\ ThrInit /\ ctorOutcome = "object"
    /\ input \in InheritInputs
    /\ output = <<>>

InheritNext == MroAddPath \/ CallInherited

InheritSpec == InheritInit /\ [][InheritNext]_vars

ReadInherited ==
    /\ Len(hist) = 2
    /\ Last(hist).op = "inherited_members"
    /\ Last(hist).raised = "none"
\* the C3 linearization of the class called id, without the class itself
Linearization(id) == Tail(C3(id).list)
\* mro() of the class the last call was made on, as class names
MroNames == Linearization(Last(hist).id)
\* the names the body of the class called id declares
DeclaredIn(id) == {Id1(input[FileOf(id)].body[i].name) : i \in 1..Len(input[FileOf(id)].body)}
\* the names all_members of the class called id has: what it declares and
\* what the classes of its own mro() declare
AllNamesOf(id) == DeclaredIn(id) \cup UNION {DeclaredIn(b) : b \in SeqRange(Linearization(id))}
\* the first class of the mro() that declares n
NearestDefiner(n) ==
    MroNames[CHOOSE i \in 1..Len(MroNames) :
                /\ n \in DeclaredIn(MroNames[i])
                /\ \A j \in 1..(i - 1) : n \notin DeclaredIn(MroNames[j])]

\* C26: inherited_members of a class C has exactly the names of all_members
\* of the classes of C.mro() that C does not declare; each value unwraps to
\* the member declared by the first class of the mro() that declares the
\* name; and each value is an alias with inherited true and parent C.
InheritedMemberProjection ==
    ReadInherited =>
        /\ DOMAIN output.ret =
              UNION {AllNamesOf(b) : b \in SeqRange(MroNames)} \ DeclaredIn(Last(hist).id)
        /\ \A n \in DOMAIN output.ret :
              /\ heap[heap[Unwrapped(output.ret[n])].parent].name = NearestDefiner(n)
              /\ output.ret[n].alias
              /\ output.ret[n].inherited
              /\ ParentOf(heap, output.ret[n]) = CalledClass

---------------------------------------------------------------------------
(* Chains of aliases.  The heap holds three functions, two of them with   *)
(* the same path, and two aliases.  An alias was built around a target,   *)
(* which fixes target_path, or around a callable, which leaves target     *)
(* None until the first access and target_path unassigned; ctor is what   *)
(* the callable returns.  Reading an attribute the alias does not have,   *)
(* path among them, goes through __getattr__ to _actual of the alias.     *)

\* Depth of nested calls after which the interpreter raises RecursionError.
RecursionLimit == 3

ChainObjects ==
    <<NewObject("function", Id1("f"), <<>>, <<>>),
      NewObject("function", Id1("g"), <<>>, <<>>),
      NewObject("function", Id1("f"), <<>>, <<>>)>>
AliasA == Len(ChainObjects) + 1
AliasB == Len(ChainObjects) + 2
ChainAliases == {AliasA, AliasB}

\* Alias(name, target) for a target that is an object
GivenAlias(name, o) ==
    [kind |-> "alias", name |-> Id1(name), target |-> o, ctor |-> None,
     target_path |-> ChainObjects[o].name]
\* Alias(name, target) for a callable that returns the heap entry c
LazyAlias(name, c) ==
    [kind |-> "alias", name |-> Id1(name), target |-> None, ctor |-> c,
     target_path |-> Undefined]
AliasesNamed(name) ==
    {GivenAlias(name, o) : o \in 1..Len(ChainObjects)}
        \cup {LazyAlias(name, c) : c \in 1..AliasB}

isinstance_Alias(h, t) == h[t].kind = "alias"

Unwound(h, o) == [heap |-> h, err |-> "none", ret |-> o, chain |-> <<>>]
Overflow(h) == [heap |-> h, err |-> "RecursionError", ret |-> None, chain |-> <<>>]
\* self._target = self._constructor() when the alias is not resolved
Materialize(h, x) == IF h[x].target = None THEN [h EXCEPT ![x].target = h[x].ctor] ELSE h

RECURSIVE ChainActual(_, _, _)
\* target = target.target: the property unwraps the inner alias to the
\* end, so the loop of the outer alias ends after this iteration
ChainStep(r, t, depth) == IF r.err # "none" THEN r ELSE ChainActual(r.heap, t, depth)
\* raise CyclicAliasError([*paths_seen, target.path])
ChainCycle(r, seen) ==
    [heap |-> r.heap, err |-> "CyclicAliasError", ret |-> None,
     chain |-> Append(seen, r.heap[r.ret].name)]
\* one iteration of the while loop: r is what reading target.path gave
ChainSeen(r, t, depth, seen) ==
    IF r.err # "none" THEN r
    ELSE IF r.heap[r.ret].name \in SeqRange(seen) THEN ChainCycle(r, seen)
    ELSE ChainStep(r, t, depth)
\* the while loop, entered with paths_seen empty
ChainLoop(h, t, depth) ==
    IF isinstance_Alias(h, t)
    THEN ChainSeen(ChainActual(h, t, depth + 1), t, depth + 1, <<>>)
    ELSE Unwound(h, t)
\* Alias._actual of the alias x, depth calls deep
ChainActual(h, x, depth) ==
    IF depth > RecursionLimit THEN Overflow(h)
    ELSE ChainLoop(Materialize(h, x), Materialize(h, x)[x].target, depth)

\* the path of a heap entry: its own for an object, the target's for an alias
PathRead(h, v) == IF isinstance_Alias(h, v) THEN ChainActual(h, v, 1) ELSE Unwound(h, v)

\* raise CyclicAliasError([self.target_path]); a target_path that was never
\* assigned is looked up on the target, which has none
ChainRaise(r, x) ==
    IF r.err # "none" THEN r
    ELSE IF r.heap[x].target_path = Undefined
    THEN [r EXCEPT !.err = "AttributeError", !.ret = None]
    ELSE [r EXCEPT !.err = "CyclicAliasError", !.ret = None,
                   !.chain = <<r.heap[x].target_path>>]
\* self._target = value; self.target_path = value.path
ChainAssign(r, x, v, vpath) ==
    [r EXCEPT !.heap[x].target = v, !.heap[x].target_path = vpath, !.ret = None]
\* value.path == self.path, both read: rv and rs
ChainCompare(rv, rs, x, v) ==
    IF rs.err # "none" THEN rs
    ELSE IF rs.heap[rv.ret].name = rs.heap[rs.ret].name THEN ChainRaise(rs, x)
    ELSE ChainAssign(rs, x, v, rs.heap[rv.ret].name)
\* the right operand of the or: value.path was read (rv), self.path is next
ChainPaths(rv, x, v) ==
    IF rv.err # "none" THEN rv ELSE ChainCompare(rv, ChainActual(rv.heap, x, 1), x, v)
\* the target setter: if value is self or value.path == self.path: raise
ChainSetTarget(h, x, v) ==
    IF v = x
    THEN ChainRaise(IF h[x].target_path = Undefined THEN ChainActual(h, x, 1)
                    ELSE Unwound(h, x), x)
    ELSE ChainPaths(PathRead(h, v), x, v)

OpChain(what, x, v) ==
    [op |-> what, root |-> <<>>, to_end |-> FALSE, recursive |-> FALSE, id |-> NoId,
     raised |-> "none", alias |-> x, value |-> v]

\* what a call on the alias x left: the heap, the error, and in output the
\* chain an error carries and the target the alias had before
ChainBecomes(r, call) ==
    /\ heap' = r.heap
    /\ err' = r.err
    /\ result' = r.ret
    /\ hist' = Append(hist, [call EXCEPT !.raised = r.err])
    /\ output' = [chain |-> r.chain, before |-> heap[call.alias].target]
    /\ UNCHANGED <<path, mapping, okeys, objects, members, folders, lines, thrVars, input>>

\* x.target
ChainRead ==
    /\ Len(hist) < 2
    /\ \E x \in ChainAliases : ChainBecomes(ChainActual(heap, x, 1), OpChain("target", x, None))

\* x.target = v
ChainWrite ==
    /\ Len(hist) < 2
    /\ \E x \in ChainAliases, v \in 1..Len(heap) :
          ChainBecomes(ChainSetTarget(heap, x, v), OpChain("target=", x, v))

ChainInit ==
    /\ path = <<>> /\ mapping = <<>> /\ members = <<>> /\ folders = <<>>
    /\ okeys = <<>> /\ objects = <<>>
    /\ lines = {} /\ err = "none" /\ result = None /\ hist = <<>>
    /\ \E a \in AliasesNamed("a"), b \in AliasesNamed("b") : heap = ChainObjects \o <<a, b>>
    /\ ThrInit /\ ctorOutcome = "object" /\ FunInit

ChainNext == ChainRead \/ ChainWrite

ChainSpec == ChainInit /\ [][ChainNext]_vars

\* what the alias x pointed at, resolved or not, before the last call
PointedAt(x) ==
    IF x = Last(hist).alias
    THEN (IF output.before = None THEN heap[x].ctor ELSE output.before)
    ELSE (IF heap[x].target = None THEN heap[x].ctor ELSE heap[x].target)
\* the chain of alias targets that started at x came back to an alias
OnCycle(x) ==
    /\ isinstance_Alias(heap, x)
    /\ \/ PointedAt(x) = x
       \/ /\ isinstance_Alias(heap, PointedAt(x))
          /\ isinstance_Alias(heap, PointedAt(PointedAt(x)))
\* the object at the end of the chain of x, for an x that is on no cycle
EndOf(x) ==
    IF ~isinstance_Alias(heap, x) THEN x
    ELSE IF ~isinstance_Alias(heap, PointedAt(x)) THEN PointedAt(x)
    ELSE PointedAt(PointedAt(x))
ReadOf(x) == Len(hist) = 1 /\ Last(hist).op = "target" /\ Last(hist).alias = x
WriteOf(x, v) ==
    Len(hist) = 1 /\ Last(hist).op = "target=" /\ Last(hist).alias = x /\ Last(hist).value = v

\* C27: reading the target of an alias whose chain of targets revisits an
\* alias raises CyclicAliasError with the chain of visited paths; assigning
\* to an alias itself, or a value with the path of the alias, raises
\* CyclicAliasError and leaves the target of the alias as it was.
AliasCycleDetected ==
    /\ \A x \in ChainAliases :
          (ReadOf(x) /\ OnCycle(x)) =>
              /\ Last(hist).raised = "CyclicAliasError"
              /\ output.chain # <<>>
    /\ \A x \in ChainAliases, v \in 1..Len(heap) :
          (/\ WriteOf(x, v)
           /\ \/ v = x
              \/ /\ ~OnCycle(x) /\ ~OnCycle(v)
                 /\ heap[EndOf(v)].name = heap[EndOf(x)].name) =>
              /\ Last(hist).raised = "CyclicAliasError"
              /\ heap[x].target = output.before

---------------------------------------------------------------------------
(* Object.resolve on the objects root A gives: the namespaces pkg and     *)
(* pkg.sub, the class C, and the functions in them.                       *)

RECURSIVE resolve(_, _, _)
\* Object.resolve: a member of the object itself, else the test on the
\* parent (is_namespace and is_folder read the parent's kind), else the
\* parent's resolve
resolve(st, o, name) ==
    IF name \in DOMAIN st.heap[o].members
    THEN Return(st, ObjPath(st.heap, st.heap[o].members[name]))
    ELSE IF \/ st.heap[o].parent = None
            \/ ~(st.heap[st.heap[o].parent].kind = "namespace")
            \/ ~(st.heap[st.heap[o].parent].kind = "folder")
    THEN Raise(st, "NameResolutionError")
    ELSE resolve(st, st.heap[o].parent, name)

OpResolve(o, name) ==
    [op |-> "resolve", root |-> <<>>, to_end |-> FALSE, recursive |-> FALSE, id |-> name,
     raised |-> "none", obj |-> o]

ScopeNames == {Id1("bar"), Id1("sub"), Id1("x"), Id1("f"), Id1("nope")}

\* collection.addpath(A)
ScopeAddPath ==
    /\ hist = <<>>
    /\ \E to_end \in BOOLEAN, recursive \in BOOLEAN :
          Becomes(AddPath(Cur, RootA, to_end, recursive), OpAdd(RootA, to_end, recursive))

\* collection[id]
ScopeGetItem ==
    /\ Len(hist) \in 1..2
    /\ Last(hist).op # "resolve"
    /\ \E id \in LookupIds : Becomes(GetItem(Cur, id), OpGet(id))

\* o.resolve(name) for an object o that was built
ScopeResolve ==
    /\ hist # <<>>
    /\ Last(hist).op # "resolve"
    /\ \E o \in 1..Len(heap), name \in ScopeNames :
          Answers(resolve(Cur, o, name), OpResolve(o, name))

ScopeNext == ScopeAddPath \/ ScopeGetItem \/ ScopeResolve

ScopeSpec == Init /\ [][ScopeNext]_vars

RECURSIVE ScopeChain(_)
\* o, o.parent, o.parent.parent, ...
ScopeChain(o) == IF o = None THEN <<>> ELSE <<o>> \o ScopeChain(heap[o].parent)
Resolved == hist # <<>> /\ Last(hist).op = "resolve"
\* the scopes of the chain of the object resolve was called on that have a
\* member called as the name asked for, by position in the chain
ScopesWith ==
    {i \in 1..Len(ScopeChain(Last(hist).obj)) :
        Last(hist).id \in DOMAIN heap[ScopeChain(Last(hist).obj)[i]].members}
NearestScope == ScopeChain(Last(hist).obj)[CHOOSE i \in ScopesWith : \A j \in ScopesWith : i <= j]

\* C28: obj.resolve(name) returns the path of the member called name of the
\* nearest scope of obj, obj.parent, obj.parent.parent, ... that has one,
\* and raises NameResolutionError only when no scope of the chain has one.
ScopeChainResolution ==
    Resolved =>
        IF ScopesWith = {} THEN output.err = "NameResolutionError"
        ELSE /\ output.err = "none"
             /\ output.ret = ObjPath(heap, heap[NearestScope].members[Last(hist).id])

---------------------------------------------------------------------------
(* The identifier map against the alias table, and the order of the       *)
(* candidates.                                                            *)

\* every call so far was an addpath or an rm_path that returned
AddsAndRemoves ==
    \A i \in 1..Len(hist) : hist[i].op \in {"addpath", "rm_path"} /\ hist[i].raised = "none"

\* C29: after addpath and rm_path calls that returned, every candidate of
\* every identifier is a key of the alias table and no identifier has an
\* empty candidate list, so that the lookup of a mapped identifier raises
\* neither KeyError nor IndexError.
MappingConsistent ==
    AddsAndRemoves =>
        \A id \in DOMAIN mapping :
            /\ mapping[id] # <<>>
            /\ \A i \in 1..Len(mapping[id]) : mapping[id][i] \in DOMAIN objects
            /\ GetItem(Cur, id).err \notin {"KeyError", "IndexError"}

\* the position in hist of the first addpath of root
FirstAdded(root) ==
    CHOOSE i \in 1..Len(hist) :
        /\ hist[i].op = "addpath" /\ hist[i].root = root
        /\ \A j \in 1..(i - 1) : ~(hist[j].op = "addpath" /\ hist[j].root = root)
\* the paths the globber emitted in the addpath calls so far
FoundSoFar == UNION {FoundUnder(hist[i].root) : i \in 1..Len(hist)}

\* C30: after addpath calls that returned, over distinct or repeated
\* roots, the candidates of an identifier are paths the globber emitted,
\* each listed once, in the order of the addpath calls that brought them;
\* and the list kept for a root holds no (identifier, path) pair twice.
CandidatesOncePerPath ==
    (OnlyAddPaths /\ hist # <<>>) =>
        /\ \A id \in DOMAIN mapping :
              /\ NoDuplicates(mapping[id])
              /\ SeqRange(mapping[id]) \subseteq FoundSoFar
              /\ \A i \in 1..Len(mapping[id]) : \A j \in 1..Len(mapping[id]) :
                    i < j => FirstAdded(RootOf(mapping[id][i])) <= FirstAdded(RootOf(mapping[id][j]))
        /\ \A root \in DOMAIN members : NoDuplicates(members[root])

====
